---- MODULE Spec2Model ----
(***************************************************************************)
(* nodaddy: bulk domain migration from GoDaddy to Cloudflare.              *)
(*                                                                         *)
(* The module models the migration store (state-manager), the per-domain   *)
(* transfer pipeline (transferDomain), the GoDaddy adapter's lock-aware    *)
(* retry loop (requestVoid), the Listr batch scheduler built by            *)
(* createMigrationTasks, the resume command and the sliding-window         *)
(* RateLimiter.  JavaScript runs one task at a time and switches tasks     *)
(* only at an await, so every action below is the code between two awaits  *)
(* of one task: the provider's answer arrives, the code after the await    *)
(* runs up to the next await.                                              *)
(***************************************************************************)
EXTENDS Integers, Sequences, FiniteSets, TLC

(***************************************************************************)
(* Bounds of the model.                                                    *)
(***************************************************************************)
NumDomains == 2       \* domains of a batch whose pipelines run in full
BatchSize == 10       \* domains of a batch of dry runs
MaxRecords == 1       \* DNS records a domain has at GoDaddy
MaxResumes == 1       \* resumeCommand runs after one migrateCommand
MaxResumeBatch == 1   \* domains of a resumed batch
NumCallers == 3       \* concurrent callers of one RateLimiter
MaxMigrations == 3      \* createMigration calls in the store's own specification
MaxAgeDays == 61        \* oldest domain handed to preflightCheck, in days
MaxRequests == 2      \* largest 'requests' a RateLimiter is configured with
WindowMs == 150       \* its 'windowMs'
TickMs == 50          \* the step of the clock

MaxOf(a, b) == IF a >= b THEN a ELSE b
MinOf(a, b) == IF a <= b THEN a ELSE b

Domains == 1..MaxOf(NumDomains, BatchSize)

(***************************************************************************)
(* Program constants.                                                      *)
(***************************************************************************)
RESOURCE_LOCK_MAX_RETRIES == 4
RESOURCE_LOCK_BASE_DELAY_MS == 5000
UNLOCK_POLL_ATTEMPTS == 6
concurrentUnbounded == NumDomains + BatchSize

concurrent == 8
exitOnErrorSet == TRUE

exitOnError == FALSE

NoValue == "undefined"

(* An optional value that is not a string: absent, or present. *)
None == <<>>
Some(x) == <<x>>

(***************************************************************************)
(* DomainStatus and the pipeline order of the statuses.                    *)
(***************************************************************************)
DomainStatus ==
  {"pending", "dns_migrated", "unlocked", "auth_obtained", "ns_changed",
   "transfer_initiated", "completed", "failed"}

PipelineOrder ==
  <<"pending", "dns_migrated", "unlocked", "auth_obtained", "ns_changed",
    "transfer_initiated", "completed">>

Rank(s) == CHOOSE i \in 1..Len(PipelineOrder) : PipelineOrder[i] = s

(***************************************************************************)
(* Errors.  A message is the tuple of the parts the code concatenates (the  *)
(* status code as its decimal text), so that message.includes(x) is        *)
(* membership of x among the parts.                                        *)
(***************************************************************************)
Includes(msg, part) == \E i \in 1..Len(msg) : msg[i] = part

LockBody == "Resource is being used"

GoDaddyApiError(status, body) ==
  [name |-> "GoDaddyApiError",
   message |-> <<"GoDaddy", "API error", ToString(status), body>>,
   statusCode |-> status, responseBody |-> body]

CloudflareApiError(status, body) ==
  [name |-> "CloudflareApiError",
   message |-> <<"Cloudflare", "API error", ToString(status), body>>,
   statusCode |-> status, responseBody |-> body]

PlainError(text) ==
  [name |-> "Error", message |-> <<text>>, statusCode |-> 0, responseBody |-> ""]

(* A schema mismatch: zod's parse throws; the error has no statusCode. *)
SchemaError ==
  [name |-> "ZodError", message |-> <<"Invalid input">>, statusCode |-> 0,
   responseBody |-> ""]

(* The first hint of a provider's list that matches, 0 when none does. *)
GodaddyHint(msg, status) ==
  IF status = 401 \/ status = 403 THEN 1
  ELSE IF status = 429 THEN 2
  ELSE IF Includes(msg, "DOMAIN_LOCKED") THEN 3
  ELSE IF Includes(msg, "409") \/ Includes(msg, "Conflict") THEN 4
  ELSE IF Includes(msg, "UNABLE_TO_AUTHENTICATE") \/ Includes(msg, "NOT_FOUND") THEN 5
  ELSE 0

CloudflareHint(msg, status) ==
  IF status = 401 \/ status = 403 THEN 1
  ELSE IF Includes(msg, "already exists") THEN 2
  ELSE IF status = 429 THEN 3
  ELSE IF Includes(msg, "not_registrable") THEN 4
  ELSE IF Includes(msg, "did not become active") THEN 5
  ELSE 0

DetectProvider(msg) ==
  IF Includes(msg, "GoDaddy") THEN "godaddy"
  ELSE IF Includes(msg, "Cloudflare") THEN "cloudflare"
  ELSE NoValue

formatError(err, provider) ==
  LET g == GodaddyHint(err.message, err.statusCode)
      c == CloudflareHint(err.message, err.statusCode)
      hint == IF provider = "godaddy" THEN <<"godaddy", g>>
              ELSE IF provider = "cloudflare" THEN <<"cloudflare", c>>
              ELSE IF g # 0 THEN <<"godaddy", g>> ELSE <<"cloudflare", c>>
  IN IF hint[2] # 0
       THEN err.message \o <<"| Suggestion:", hint>>
       ELSE err.message

(***************************************************************************)
(* RateLimiter.  A timestamp is kept as its age, now - t, which is all the *)
(* code reads of it; an age that reached windowMs stays there, the filter  *)
(* drops it whatever it is beyond that.                                    *)
(***************************************************************************)
VARIABLES
  config,        \* RateLimitConfig: [requests, windowMs]
  timestamps,    \* this.timestamps, oldest first, as ages
  caller,        \* per caller of acquire(): [state, waitMs] of its sleep
  admissions     \* ages of the admissions inside the trailing window

limiterVars == <<config, timestamps, caller, admissions>>

Callers == 1..NumCallers

BUFFER_MS == 50

InWindow(ages, cfg) == SelectSeq(ages, LAMBDA age : age < cfg.windowMs)

WindowFullLate(active, cfg) == Len(active) > cfg.requests

WindowFull(active, cfg) == Len(active) >= cfg.requests

WaitMs(active, cfg) == cfg.windowMs - active[1] + BUFFER_MS

(* One run of acquire()'s body up to its await or its return. *)
acquire(ages, cfg) ==
  LET active == InWindow(ages, cfg)
  IN IF WindowFull(active, cfg)
       THEN [admitted |-> FALSE, timestamps |-> active, waitMs |-> WaitMs(active, cfg)]
       ELSE [admitted |-> TRUE, timestamps |-> Append(active, 0), waitMs |-> 0]

(* get remaining() *)
remaining(ages, cfg) == MaxOf(0, cfg.requests - Len(InWindow(ages, cfg)))

Idle == [state |-> "idle", waitMs |-> 0]

LimiterIdle ==
  /\ config = [requests |-> 1, windowMs |-> WindowMs]
  /\ timestamps = <<>>
  /\ caller = [c \in Callers |-> Idle]
  /\ admissions = <<>>

(***************************************************************************)
(* GoDaddyClient: the call it is serving.  The repository carries two      *)
(* builds of the class: in one only requestVoid retries, in the other      *)
(* request, requestVoid and requestText all go through fetchWithRetry.     *)
(***************************************************************************)
VARIABLES
  client,        \* [variant, method, state, attempt, acquires, reqs, locks,
                 \*  sleeps, last, outcome] of the call in progress
  preflight,     \* [domain, result]: preflightCheck's argument and what it returned
  dns,           \* [records, result]: mapGoDaddyToCloudflare's argument and what it returned
  validation,    \* [domain, result]: assertValidDomain's argument and how it ended
  execution,     \* one transferDomain call, statement by statement, with its observer
  adapter,       \* per caller: the request method it is in, where, which attempt
  sentAt,        \* ages (ms) of the HTTP requests sent inside the window
  now            \* the store's clock: what new Date() reads

functionVars == <<preflight, dns, validation, execution>>

adapterVars == <<adapter, sentAt>>

serviceVars == <<limiterVars, client, functionVars, adapterVars, now>>

ClientVariants == {"requestVoid", "fetchWithRetry"}

ReadMethods == {"listDomains", "getDomainDetail", "getDnsRecords", "getAuthCode"}

VoidMethods == {"removePrivacy", "updateNameservers"}

NewCall(variant, method) ==
  [variant |-> variant, method |-> method, state |-> "idle", attempt |-> 0,
   acquires |-> 0, reqs |-> 0, locks |-> 0, sleeps |-> <<>>, last |-> None,
   outcome |-> "none"]

ClientIdle == client = NewCall("requestVoid", "none")

(***************************************************************************)
(* preflightCheck.  A domain name is the sequence of its labels; createdAt *)
(* is kept as the age it gives, Date.now() - created, in hours, so that    *)
(* daysSinceCreation is age / HoursPerDay, a fraction.                     *)
(***************************************************************************)
HoursPerDay == 24

MinAgeDays == 60

UNSUPPORTED_TLDS ==
  {<<"uk">>, <<"co", "uk">>, <<"org", "uk">>, <<"me", "uk">>, <<"de">>, <<"ca">>,
   <<"au">>, <<"com", "au">>, <<"net", "au">>, <<"jp">>, <<"eu">>, <<"be">>,
   <<"fr">>, <<"nl">>}

(* Math.floor and Math.ceil of n / d for d > 0. *)
Floor(n, d) == n \div d

Ceil(n, d) == -((-n) \div d)

(* domain.split('.').slice(1).join('.') *)
TldOf(name) == Tail(name)

StatusReason(domain) ==
  IF domain.status # "ACTIVE" THEN <<[rule |-> "status", status |-> domain.status]>>
  ELSE <<>>

DaysRemainingFloor(age) == Floor(MinAgeDays * HoursPerDay - age, HoursPerDay)

DaysRemaining(age) == Ceil(MinAgeDays * HoursPerDay - age, HoursPerDay)

TooYoung(age) == age < MinAgeDays * HoursPerDay

(* createdAt absent: the rule is not evaluated. *)
AgeReason(domain) ==
  IF domain.createdAt = None THEN <<>>
  ELSE LET age == domain.createdAt[1]
       IN IF TooYoung(age)
            THEN <<[rule |-> "age", daysOld |-> Floor(age, HoursPerDay),
                    daysRemaining |-> DaysRemaining(age),
                    plural |-> DaysRemaining(age) # 1]>>
            ELSE <<>>

TldReason(domain) ==
  IF TldOf(domain.domain) \in UNSUPPORTED_TLDS
    THEN <<[rule |-> "tld", tld |-> TldOf(domain.domain)]>>
    ELSE <<>>

ProtectionReason(domain) ==
  IF domain.transferProtected THEN <<[rule |-> "protection"]>> ELSE <<>>

ReasonsProtectionFirst(domain) ==
  ProtectionReason(domain) \o StatusReason(domain) \o AgeReason(domain) \o TldReason(domain)

Reasons(domain) ==
  StatusReason(domain) \o AgeReason(domain) \o TldReason(domain) \o ProtectionReason(domain)

preflightCheck(domain) ==
  [domain |-> domain.domain,
   eligible |-> Len(Reasons(domain)) = 0,
   reasons |-> Reasons(domain)]

NoRequest ==
  [provider |-> "none", name |-> "none", domain |-> None, method |-> "none",
   state |-> "idle", attempt |-> 0, calls |-> 0]

AdaptersIdle ==
  /\ adapter = [c \in 1..NumCallers |-> NoRequest]
  /\ sentAt = <<>>

NoExecution == [outcome |-> "none"]

PreflightIdle ==
  /\ AdaptersIdle
  /\ execution = NoExecution
  /\ preflight = [domain |-> None, result |-> None]
  /\ dns = [records |-> None, result |-> None]
  /\ validation = [domain |-> None, result |-> None]

(***************************************************************************)
(* The migration store.                                                    *)
(***************************************************************************)
VARIABLES
  migrations,          \* store 'migrations': run id -> [domains: name -> state]
  activeMigrationId    \* store 'activeMigrationId', 0 for null

storeVars == <<migrations, activeMigrationId>>

NewDomainState ==
  [status |-> "pending", dnsRecordsBackup |-> <<>>,
   cloudflareZoneId |-> NoValue, cloudflareNameservers |-> None,
   error |-> None, lastUpdated |-> now]

(* createMigration: the store after it; the new id is the next unused one. *)
NewMigrationId(migs) == Cardinality(DOMAIN migs) + 1

createMigrationAlone(migs, doms) ==
  [i \in {NewMigrationId(migs)} |->
     [id |-> i, domains |-> [d \in doms |-> NewDomainState]]]

createMigration(migs, doms) ==
  LET id == NewMigrationId(migs)
  IN [i \in DOMAIN migs \cup {id} |->
        IF i = id THEN [id |-> id, domains |-> [d \in doms |-> NewDomainState]]
        ELSE migs[i]]

(* { ...domainState, ...extra, status }: extra overrides the fields it names. *)
MergeStateAnew(domainState, status, extra) ==
  [f \in DOMAIN NewDomainState \cup DOMAIN extra |->
     IF f = "status" THEN status
     ELSE IF f \in DOMAIN extra THEN extra[f]
     ELSE NewDomainState[f]]

MergeState(domainState, status, extra) ==
  [f \in DOMAIN domainState \cup DOMAIN extra \cup {"status", "lastUpdated"} |->
     IF f = "status" THEN status
     ELSE IF f = "lastUpdated" THEN now
     ELSE IF f \in DOMAIN extra THEN extra[f]
     ELSE domainState[f]]

NoExtra == [x \in {} |-> NoValue]

(* A writer that kept the run as it was created and changes its domain there. *)
updateDomainStatusOnStaleRun(migs, id, d, status, extra) ==
  [migs EXCEPT ![id].domains =
     [e \in DOMAIN @ |-> IF e = d THEN MergeState(@[e], status, extra)
                         ELSE NewDomainState]]

updateDomainStatus(migs, id, d, status, extra) ==
  [migs EXCEPT ![id].domains[d] = MergeState(@, status, extra)]

(* saveDnsBackup's call of updateDomainStatus: the status and the extra. *)
BackupWrite(records) == <<"pending", [dnsRecordsBackup |-> records]>>

saveDnsBackup(migs, id, d, records) ==
  updateDomainStatus(migs, id, d, BackupWrite(records)[1], BackupWrite(records)[2])

(* Strip any auth codes left by older versions. *)
sanitizeMigration(migration) ==
  [migration EXCEPT !.domains =
     [d \in DOMAIN @ |-> [f \in DOMAIN @[d] \ {"authCode"} |-> @[d][f]]]]

getMigration(migs, id) ==
  IF id \in DOMAIN migs THEN Some(sanitizeMigration(migs[id])) ELSE None

IsResumableUnlessCompleted(st) == st.status # "completed"

IsResumable(st) == st.status # "completed" /\ st.status # "transfer_initiated"

(* getResumableDomains: the names of the states the filter keeps. *)
getResumableDomains(migs, id) ==
  IF getMigration(migs, id) = None THEN {}
  ELSE {d \in DOMAIN migs[id].domains : IsResumable(migs[id].domains[d])}

(***************************************************************************)
(* One batch run (migrateCommand or resumeCommand) and its tasks.          *)
(***************************************************************************)
VARIABLES
  phase,         \* "idle" | "running" | "finished" | "interrupted"
  migrationId,   \* the run id the batch's tasks write to
  options,       \* MigrationOptions of the batch
  contact,       \* TRUE when the command holds a registrant contact
  queue,         \* Listr: the domains whose task has not started yet
  results,       \* ctx.results: domain -> None | Some([success, error])
  resumes,       \* number of resumeCommand runs so far
  batch,         \* the domains the batch was started for
  env            \* how much of the providers' behaviour the batch is run against

batchVars ==
  <<phase, migrationId, options, contact, queue, results, resumes, batch, env>>

VARIABLES
  pc,            \* where each domain's transferDomain execution stands
  task,          \* its local variables
  req            \* the requestVoid call in progress (or the last one)

VARIABLES
  written,       \* statuses this execution has persisted, in order
  hiwater,       \* rank of the highest non-failed status ever persisted
  trace,         \* provider calls issued and steps finished in this execution
  doneBefore,    \* steps finished by earlier executions of the same run
  failure        \* None, or where the execution failed and the error raised

taskVars == <<pc, task, req>>
histVars == <<written, hiwater, trace, doneBefore, failure>>

NewTask ==
  [attempt |-> 0, dnsRecords |-> <<>>, zone |-> None, caught |-> None,
   cfRecords |-> <<>>, created |-> 0, failed |-> 0, authCode |-> NoValue,
   elapsed |-> 0]

NewReq == [call |-> NoValue, reqs |-> 0, locks |-> 0, sleeps |-> <<>>,
           last |-> None, outcome |-> NoValue]

NewTrace == [calls |-> {}, done |-> {}]

(***************************************************************************)
(* Listr with { concurrent: 8, exitOnError: false }: the first 8 tasks     *)
(* start at once; when a task ends, the next waiting task starts.          *)
(***************************************************************************)
RECURSIVE SeqOf(_)
SeqOf(S) ==
  IF S = {} THEN <<>>
  ELSE LET first == CHOOSE x \in S : \A y \in S : x <= y
       IN <<first>> \o SeqOf(S \ {first})

(* The providers' full range of answers is explored for the first batch of *)
(* a single domain; batches of several domains and resumed batches are     *)
(* explored against the narrow range (see the ...Now sets below).          *)
WideBatch(doms) == Cardinality(doms) = 1 /\ phase = "idle"

(* transferDomain's parameter contact as createMigrationTasks fills it:    *)
(* the task factory has no contact parameter and hands its progress        *)
(* callback to transferDomain in that position, so the parameter is truthy *)
(* whatever the command holds, and onProgress is undefined.                *)
ContactParameterAsCollected(collected) == collected

ContactParameter(collected) == TRUE

(* Where transferDomain starts: it does not read the domain's state. *)
EntryPointAfterBackup(st) ==
  IF st.dnsRecordsBackup # <<>> THEN "createZone" ELSE "export"

EntryPoint(st) == "export"

StartBatch(doms, id, opts, ct) ==
  LET order == SeqOf(doms)
      first == {order[i] : i \in 1..MinOf(concurrent, Len(order))}
  IN /\ phase' = "running"
     /\ migrationId' = id
     /\ options' = opts
     /\ contact' = ct
     /\ batch' = doms
     /\ env' = IF WideBatch(doms) THEN "wide" ELSE "narrow"
     /\ queue' = SubSeq(order, MinOf(concurrent, Len(order)) + 1, Len(order))
     /\ results' = [d \in Domains |-> None]
     /\ pc' = [d \in Domains |->
                 IF d \in first THEN EntryPoint(migrations'[id].domains[d])
                 ELSE IF d \in doms THEN "queued" ELSE "idle"]
     /\ task' = [d \in Domains |-> NewTask]
     /\ req' = [d \in Domains |-> NewReq]
     /\ written' = [d \in Domains |-> <<>>]
     /\ trace' = [d \in Domains |-> NewTrace]
     /\ doneBefore' = [d \in Domains |-> doneBefore[d] \cup trace[d].done]
     /\ failure' = [d \in Domains |-> None]

Goto(d, p) ==
  /\ pc' = [pc EXCEPT ![d] = p]
  /\ UNCHANGED <<queue, results>>

(* The task's promise settles: ctx.results.set(domain, res); Listr starts  *)
(* the next waiting task.  With exitOnError a failure ends the run: the    *)
(* waiting tasks never start and the run no longer awaits the others.      *)
TaskEnd(d, res) ==
  LET stop == exitOnError /\ ~res.success
      next == IF queue # <<>> /\ ~stop THEN Head(queue) ELSE 0
  IN /\ results' = [results EXCEPT ![d] = Some(res)]
     /\ pc' = [e \in Domains |->
                 IF e = d THEN "done"
                 ELSE IF e = next THEN EntryPoint(migrations[migrationId].domains[e])
                 ELSE IF stop /\ pc[e] \notin {"idle", "done"} THEN "idle"
                 ELSE pc[e]]
     /\ queue' = IF stop THEN <<>> ELSE IF queue # <<>> THEN Tail(queue) ELSE queue

(***************************************************************************)
(* Store writes of a pipeline step, with their history.                    *)
(***************************************************************************)
RECURSIVE ApplyWrites(_, _, _, _)
ApplyWrites(migs, id, d, ws) ==
  IF ws = <<>> THEN migs
  ELSE ApplyWrites(updateDomainStatus(migs, id, d, ws[1][1], ws[1][2]),
                   id, d, Tail(ws))

RECURSIVE TopRank(_, _)
TopRank(h, ws) ==
  IF ws = <<>> THEN h
  ELSE TopRank(IF ws[1][1] = "failed" THEN h ELSE MaxOf(h, Rank(ws[1][1])), Tail(ws))

Writes(d, ws) ==
  /\ migrations' = ApplyWrites(migrations, migrationId, d, ws)
  /\ written' = [written EXCEPT ![d] = @ \o [i \in 1..Len(ws) |-> ws[i][1]]]
  /\ hiwater' = [hiwater EXCEPT ![d] = TopRank(@, ws)]
  /\ UNCHANGED activeMigrationId

Log(d, call, steps) ==
  /\ trace' = [trace EXCEPT ![d].calls = @ \cup call, ![d].done = @ \cup steps]
  /\ UNCHANGED doneBefore

(***************************************************************************)
(* transferDomain's catch block: persist failed with the formatted error,  *)
(* report, rethrow; createMigrationTasks' catch records the failure.       *)
(***************************************************************************)
CatchExtraNoError(err) == NoExtra

CatchExtra(err) ==
  [error |-> formatError(err, DetectProvider(err.message))]

Fail(d, call, err) ==
  /\ Writes(d, <<<<"failed", CatchExtra(err)>>>>)
  /\ Log(d, call, {})
  /\ failure' = [failure EXCEPT ![d] = Some([at |-> pc[d], err |-> err])]
  /\ TaskEnd(d, [success |-> FALSE, error |-> err.message])

Succeed(d) == TaskEnd(d, [success |-> TRUE, error |-> None])


(***************************************************************************)
(* What the providers may answer.                                          *)
(***************************************************************************)
Ok == [status |-> 200, body |-> ""]

GoDaddyErrors ==
  {[status |-> 422, body |-> LockBody], [status |-> 422, body |-> "Unprocessable"],
   [status |-> 500, body |-> LockBody], [status |-> 404, body |-> "NOT_FOUND"],
   [status |-> 409, body |-> "Conflict"], [status |-> 500, body |-> "Internal"]}

CloudflareErrors ==
  {[status |-> 400, body |-> "already exists"], [status |-> 403, body |-> "Forbidden"],
   [status |-> 500, body |-> "Internal"]}

GoDaddyErrorsNow ==
  IF env = "wide" THEN GoDaddyErrors ELSE {[status |-> 500, body |-> "Internal"]}

CloudflareErrorsNow ==
  IF env = "wide" THEN CloudflareErrors
  ELSE {[status |-> 400, body |-> "already exists"], [status |-> 500, body |-> "Internal"]}

ResOk(res) == res.status >= 200 /\ res.status <= 299

BodyIncludes(body, part) == body = part

(***************************************************************************)
(* dns-migrator.  A name is the sequence of its labels ('@' is the one     *)
(* label "@"); a record's data is a sequence of atoms, each a decimal      *)
(* digit, a whitespace character or a run of other characters, so that the *)
(* CAA pattern and endsWith read the atoms.                                *)
(***************************************************************************)
SKIP_TYPES == {"SOA"}

Apex == <<"@">>

Digits == {"0", "1"}

Whitespace == {" ", "\t"}

DigitValue(atom) == IF atom = "1" THEN 1 ELSE 0

(* parseInt(text, 10) of a run of digits. *)
RECURSIVE parseInt(_)
parseInt(digits) ==
  IF digits = <<>> THEN 0
  ELSE 10 * parseInt(SubSeq(digits, 1, Len(digits) - 1)) + DigitValue(digits[Len(digits)])

AllIn(atoms, S) == \A i \in 1..Len(atoms) : atoms[i] \in S

NoneIn(atoms, S) == \A i \in 1..Len(atoms) : atoms[i] \notin S

(* The ends <<i, j, k>> of the digits, the first whitespace and the token  *)
(* in the ways /^(\d+)\s+(\S+)\s+(.+)$/ can split the data; the last       *)
(* whitespace run ends at l.                                               *)
CaaSplits(data) ==
  {x \in (1..Len(data)) \X (1..Len(data)) \X (1..Len(data)) \X (1..Len(data)) :
     /\ x[1] < x[2] /\ x[2] < x[3] /\ x[3] < x[4] /\ x[4] < Len(data)
     /\ AllIn(SubSeq(data, 1, x[1]), Digits)
     /\ AllIn(SubSeq(data, x[1] + 1, x[2]), Whitespace)
     /\ NoneIn(SubSeq(data, x[2] + 1, x[3]), Whitespace)
     /\ AllIn(SubSeq(data, x[3] + 1, x[4]), Whitespace)}

(* Every quantifier of the pattern is greedy: of the splits the match is  *)
(* the one with the longest first three groups, then the longest last      *)
(* whitespace.                                                             *)
CaaMatch(data) ==
  IF CaaSplits(data) = {} THEN None
  ELSE LET x == CHOOSE y \in CaaSplits(data) :
                  \A z \in CaaSplits(data) :
                    \/ y[1] > z[1]
                    \/ y[1] = z[1] /\ y[2] > z[2]
                    \/ y[1] = z[1] /\ y[2] = z[2] /\ y[3] > z[3]
                    \/ y[1] = z[1] /\ y[2] = z[2] /\ y[3] = z[3] /\ y[4] >= z[4]
       IN Some(<<SubSeq(data, 1, x[1]), SubSeq(data, x[2] + 1, x[3]),
                 SubSeq(data, x[4] + 1, Len(data))>>)

EndsWith(data, suffix) == Len(data) > 0 /\ data[Len(data)] = suffix

isGoDaddyParkingCname(record) ==
  /\ record.type = "CNAME"
  /\ EndsWith(record.data, ".secureserver.net") \/ EndsWith(record.data, ".domaincontrol.com")

isGoDaddyParking(record) ==
  \/ record.type = "A" /\ record.name = Apex /\ record.data = <<"Parked">>
  \/ /\ record.type = "CNAME"
     /\ EndsWith(record.data, ".secureserver.net") \/ EndsWith(record.data, ".domaincontrol.com")

OrElse(optional, default) == IF optional = None THEN default ELSE optional[1]

AUTOMATIC_TTL_BELOW == 120

RecordName(record, domain) ==
  IF record.name = Apex THEN domain ELSE record.name \o domain

RecordTtl(record) == IF record.ttl < AUTOMATIC_TTL_BELOW THEN 1 ELSE record.ttl

CaaRecordUnparsed(record, name, ttl) ==
  Some([type |-> "CAA", name |-> name, content |-> record.data, ttl |-> ttl,
        data |-> [flags |-> 0, tag |-> <<>>, value |-> record.data]])

CaaRecord(record, name, ttl) ==
  LET parts == CaaMatch(record.data)
  IN IF parts = None THEN None
     ELSE Some([type |-> "CAA", name |-> name, content |-> record.data, ttl |-> ttl,
                data |-> [flags |-> parseInt(parts[1][1]), tag |-> parts[1][2],
                          value |-> parts[1][3]]])

(* mapRecord: None for null. *)
mapRecord(record, domain, proxied) ==
  LET name == RecordName(record, domain)
      ttl == RecordTtl(record)
  IN CASE record.type \in {"A", "AAAA"} ->
            Some([type |-> record.type, name |-> name, content |-> record.data,
                  ttl |-> ttl, proxied |-> proxied])
       [] record.type = "CNAME" ->
            Some([type |-> "CNAME", name |-> name,
                  content |-> IF record.data = Apex THEN domain ELSE record.data,
                  ttl |-> ttl, proxied |-> proxied])
       [] record.type = "MX" ->
            Some([type |-> "MX", name |-> name, content |-> record.data, ttl |-> ttl,
                  priority |-> OrElse(record.priority, 10)])
       [] record.type = "TXT" ->
            Some([type |-> "TXT", name |-> name, content |-> record.data, ttl |-> ttl])
       [] record.type = "SRV" ->
            Some([type |-> "SRV",
                  name |-> IF record.service # None /\ record.protocol # None
                           THEN <<record.service[1], record.protocol[1]>> \o name
                           ELSE name,
                  content |-> <<ToString(OrElse(record.priority, 0)), " ",
                                ToString(OrElse(record.weight, 0)), " ",
                                ToString(OrElse(record.port, 0)), " ">> \o record.data,
                  ttl |-> ttl,
                  data |-> [priority |-> OrElse(record.priority, 0),
                            weight |-> OrElse(record.weight, 0),
                            port |-> OrElse(record.port, 0),
                            target |-> record.data,
                            service |-> OrElse(record.service, ""),
                            proto |-> OrElse(record.protocol, ""),
                            name |-> name]])
       [] record.type = "CAA" -> CaaRecord(record, name, ttl)
       [] record.type = "NS" ->
            Some([type |-> "NS", name |-> name, content |-> record.data, ttl |-> ttl])
       [] OTHER -> None

SkippedUnlessApexNs(record) ==
  \/ record.type \in SKIP_TYPES
  \/ isGoDaddyParking(record)

(* The three 'continue' tests of mapGoDaddyToCloudflare's loop. *)
Skipped(record) ==
  \/ record.type \in SKIP_TYPES
  \/ record.type = "NS" /\ record.name = Apex
  \/ isGoDaddyParking(record)

RECURSIVE mapGoDaddyToCloudflare(_, _, _)
mapGoDaddyToCloudflare(records, domain, proxied) ==
  IF records = <<>> THEN <<>>
  ELSE LET cfRecord == IF Skipped(Head(records)) THEN None
                       ELSE mapRecord(Head(records), domain, proxied)
       IN cfRecord \o mapGoDaddyToCloudflare(Tail(records), domain, proxied)

(* A record of the given type as getDnsRecords returns it. *)
SourceRecord(type) ==
  [type |-> type, name |-> Apex, data |-> <<"192.0.2.1">>, ttl |-> 600,
   priority |-> None, weight |-> None, port |-> None, service |-> None,
   protocol |-> None]

DomainName(d) == <<ToString(d), "com">>

RecordTypes == {"A", "SOA"}

RECURSIVE SeqsUpTo(_, _)
SeqsUpTo(S, n) ==
  IF n = 0 THEN {<<>>}
  ELSE LET shorter == SeqsUpTo(S, n - 1)
       IN shorter \cup {Append(q, x) : q \in {r \in shorter : Len(r) = n - 1}, x \in S}

RecordSets == SeqsUpTo({SourceRecord(type) : type \in RecordTypes}, MaxRecords)

RecordSetsNow == IF env = "wide" THEN RecordSets ELSE {<<SourceRecord("A")>>}

(* A zone as createZone or getZoneByName returns it; name_servers ?? []. *)
Zones ==
  {[id |-> "zone", name_servers |-> ns] : ns \in {<<>>, <<"ns1", "ns2">>}}

ZonesNow == IF env = "wide" THEN Zones ELSE {z \in Zones : z.name_servers # <<>>}

(* What a poll may read: the lock flag, the zone being active. *)
LockedNow == IF env = "wide" THEN BOOLEAN ELSE {FALSE}
ActiveNow == IF env = "wide" THEN BOOLEAN ELSE {TRUE}


(***************************************************************************)
(* GoDaddyClient.requestVoid: one pass of its loop is one request.         *)
(***************************************************************************)
ShouldRetryAny422(res, attempt) ==
  /\ res.status = 422
  /\ attempt < RESOURCE_LOCK_MAX_RETRIES

ShouldRetry(res, attempt) ==
  /\ res.status = 422
  /\ BodyIncludes(res.body, LockBody)
  /\ attempt < RESOURCE_LOCK_MAX_RETRIES

BackoffDelayFromZero(attempt) == RESOURCE_LOCK_BASE_DELAY_MS * attempt

BackoffDelay(attempt) == RESOURCE_LOCK_BASE_DELAY_MS * (attempt + 1)

(* The call's log when a pass starts: a new call starts at attempt 0. *)
ReqNow(d, call) ==
  IF req[d].call = call /\ req[d].outcome = "pending" THEN req[d]
  ELSE [NewReq EXCEPT !.call = call, !.outcome = "pending"]

IsLockResponse(res) == res.status = 422 /\ BodyIncludes(res.body, LockBody)

requestVoid(r, attempt, res) ==
  LET sent == [r EXCEPT !.reqs = @ + 1, !.last = Some(res),
                        !.locks = IF IsLockResponse(res) THEN @ + 1 ELSE @]
  IN IF ResOk(res) THEN [sent EXCEPT !.outcome = "ok"]
     ELSE IF ShouldRetry(res, attempt)
       THEN [sent EXCEPT !.sleeps = Append(@, BackoffDelay(attempt))]
       ELSE [sent EXCEPT !.outcome = "error"]

(* One pass of requestVoid for the call at d's position; the three ways it *)
(* can end are told apart by the log after it.                             *)
VoidPassFromZero(d, call, res) == requestVoid(ReqNow(d, call), 0, res)

VoidPass(d, call, res) ==
  LET r == ReqNow(d, call)
      attempt == IF req[d].call = call /\ req[d].outcome = "pending"
                 THEN task[d].attempt ELSE 0
  IN requestVoid(r, attempt, res)

VoidError(r) == GoDaddyApiError(r.last[1].status, r.last[1].body)

(***************************************************************************)
(* transferDomain, step by step.                                           *)
(***************************************************************************)
Running(d) == pc[d] \notin {"idle", "queued", "done"}

(* Step 1: export the DNS records and back them up; a dry run stops here. *)
ReturnsAfterBackupNever(opts) == FALSE

(* if (options.dryRun) return; *)
ReturnsAfterBackup(opts) == opts.dryRun

ExportDns(d) ==
  /\ phase = "running" /\ pc[d] = "export"
  /\ \/ \E records \in RecordSetsNow :
          /\ Writes(d, <<BackupWrite(records)>>)
          /\ Log(d, {"getDnsRecords"}, {"export"})
          /\ task' = [task EXCEPT ![d].dnsRecords = records]
          /\ IF ReturnsAfterBackup(options) THEN Succeed(d) ELSE Goto(d, "createZone")
          /\ UNCHANGED <<req, failure>>
     \/ \E e \in {GoDaddyApiError(x.status, x.body) : x \in GoDaddyErrorsNow}
               \cup (IF env = "wide" THEN {SchemaError} ELSE {}) :
          /\ Fail(d, {"getDnsRecords"}, e)
          /\ UNCHANGED <<task, req>>
  /\ UNCHANGED <<phase, migrationId, options, contact, resumes, batch, env>>
  /\ UNCHANGED serviceVars

(* After the zone is known: persist its id and nameservers, then step 3. *)
ZoneWritesAsUnlocked(zone) ==
  <<"unlocked", [cloudflareZoneId |-> zone.id,
                 cloudflareNameservers |-> Some(zone.name_servers)]>>

ZoneWrites(zone) ==
  <<"pending", [cloudflareZoneId |-> zone.id,
                cloudflareNameservers |-> Some(zone.name_servers)]>>

ZoneReady(d, zone, call) ==
  LET cfRecords == IF options.migrateRecords
                   THEN mapGoDaddyToCloudflare(task[d].dnsRecords, DomainName(d),
                                               options.proxied)
                   ELSE <<>>
  IN /\ task' = [task EXCEPT ![d].zone = Some(zone), ![d].cfRecords = cfRecords,
                             ![d].created = 0, ![d].failed = 0, ![d].attempt = 0]
     /\ IF cfRecords = <<>>
          THEN /\ Writes(d, <<ZoneWrites(zone), <<"dns_migrated", NoExtra>>>>)
               /\ Log(d, call, {"zone", "records"})
               /\ Goto(d, "privacy")
          ELSE /\ Writes(d, <<ZoneWrites(zone)>>)
               /\ Log(d, call, {"zone"})
               /\ Goto(d, "createRecord")
     /\ UNCHANGED <<req, failure>>

ZoneExistsNever(e) == FALSE

(* message.includes('already exists') *)
ZoneExists(e) == Includes(e.message, "already exists")

(* Step 2: create the zone; "already exists" leads to the lookup. *)
CreateZone(d) ==
  /\ phase = "running" /\ pc[d] = "createZone"
  /\ \/ \E zone \in ZonesNow : ZoneReady(d, zone, {"createZone"})
     \/ \E x \in CloudflareErrorsNow :
          LET e == CloudflareApiError(x.status, x.body)
          IN IF ZoneExists(e)
               THEN /\ task' = [task EXCEPT ![d].caught = Some(e)]
                    /\ Log(d, {"createZone"}, {})
                    /\ Goto(d, "lookupZone")
                    /\ UNCHANGED <<migrations, activeMigrationId, written, hiwater,
                                   req, failure>>
               ELSE /\ Fail(d, {"createZone"}, e)
                    /\ UNCHANGED <<task, req>>
  /\ UNCHANGED <<phase, migrationId, options, contact, resumes, batch, env>>
  /\ UNCHANGED serviceVars

LookupZone(d) ==
  /\ phase = "running" /\ pc[d] = "lookupZone"
  /\ \/ \E zone \in ZonesNow : ZoneReady(d, zone, {"getZoneByName"})
     \/ /\ Fail(d, {"getZoneByName"}, task[d].caught[1])
        /\ UNCHANGED <<task, req>>
     \/ \E x \in CloudflareErrorsNow :
          /\ Fail(d, {"getZoneByName"}, CloudflareApiError(x.status, x.body))
          /\ UNCHANGED <<task, req>>
  /\ UNCHANGED <<phase, migrationId, options, contact, resumes, batch, env>>
  /\ UNCHANGED serviceVars

(* Step 3: migrateDnsRecords, one createDnsRecord per pass of its loop. *)
RecordOutcomeUncaught(x) ==
  IF ResOk(x) THEN "created" ELSE "thrown"

(* migrateDnsRecords' try/catch around createDnsRecord: what one record    *)
(* adds to. *)
RecordOutcome(x) ==
  IF ResOk(x) THEN "created"
  ELSE IF Includes(CloudflareApiError(x.status, x.body).message, "already exists")
    THEN "created"
  ELSE "failed"

CreateRecord(d) ==
  /\ phase = "running" /\ pc[d] = "createRecord"
  /\ \E x \in {Ok} \cup CloudflareErrorsNow :
       LET outcome == RecordOutcome(x)
           last == task[d].attempt + 1 = Len(task[d].cfRecords)
       IN IF outcome = "thrown"
            THEN /\ Fail(d, {"createDnsRecord"}, CloudflareApiError(x.status, x.body))
                 /\ UNCHANGED task
            ELSE /\ task' = [task EXCEPT ![d].attempt = IF last THEN 0 ELSE @ + 1,
                                         ![d].created = IF outcome = "created" THEN @ + 1 ELSE @,
                                         ![d].failed = IF outcome = "failed" THEN @ + 1 ELSE @]
                 /\ IF last
                      THEN /\ Writes(d, <<<<"dns_migrated", NoExtra>>>>)
                           /\ Log(d, {"createDnsRecord"}, {"records"})
                           /\ Goto(d, "privacy")
                      ELSE /\ Log(d, {"createDnsRecord"}, {})
                           /\ Goto(d, "createRecord")
                           /\ UNCHANGED <<migrations, activeMigrationId, written, hiwater>>
                 /\ UNCHANGED failure
  /\ UNCHANGED req
  /\ UNCHANGED <<phase, migrationId, options, contact, resumes, batch, env>>
  /\ UNCHANGED serviceVars

(* Step 4: removePrivacy; whatever it throws is caught and not fatal. *)
SwallowedNever(err) == FALSE

(* catch (privacyErr) { ... } rethrows nothing: every error of the call is *)
(* swallowed, 404 and 409 among them.                                      *)
Swallowed(err) == TRUE

RemovePrivacy(d) ==
  /\ phase = "running" /\ pc[d] = "privacy"
  /\ \E res \in {Ok} \cup GoDaddyErrorsNow :
       LET r == VoidPass(d, "removePrivacy", res)
       IN /\ req' = [req EXCEPT ![d] = r]
          /\ IF r.outcome = "error" /\ ~Swallowed(VoidError(r))
               THEN /\ Fail(d, {"removePrivacy"}, VoidError(r))
                    /\ UNCHANGED task
               ELSE /\ task' = [task EXCEPT ![d].attempt =
                                   IF r.outcome = "pending" THEN r.reqs ELSE 0]
                    /\ Log(d, {"removePrivacy"},
                           IF r.outcome = "ok" THEN {"privacy"} ELSE {})
                    /\ Goto(d, IF r.outcome = "pending" THEN "privacy" ELSE "unlock")
                    /\ UNCHANGED <<migrations, activeMigrationId, written, hiwater,
                                   failure>>
  /\ UNCHANGED <<phase, migrationId, options, contact, resumes, batch, env>>
  /\ UNCHANGED serviceVars

(* prepareForTransfer: the combined PATCH, then the unlock-only PATCH when *)
(* the first was rejected for a reason other than the resource lock.       *)
UnlockOnlyFollowsAny(err) == TRUE

(* err instanceof GoDaddyApiError &&                         *)
(* !err.responseBody.includes('Resource is being used')      *)
UnlockOnlyFollows(err) ==
  err.name = "GoDaddyApiError" /\ ~BodyIncludes(err.responseBody, LockBody)

PrepareForTransfer(d) ==
  /\ phase = "running" /\ pc[d] = "unlock"
  /\ \E res \in {Ok} \cup GoDaddyErrorsNow :
       LET r == VoidPass(d, "prepareForTransfer", res)
       IN /\ req' = [req EXCEPT ![d] = r]
          /\ IF r.outcome = "error" /\ ~UnlockOnlyFollows(VoidError(r))
               THEN /\ Fail(d, {"prepareForTransfer"}, VoidError(r))
                    /\ UNCHANGED task
               ELSE /\ task' = [task EXCEPT ![d].attempt =
                                   IF r.outcome = "pending" THEN r.reqs ELSE 0]
                    /\ Log(d, {"prepareForTransfer"}, {})
                    /\ Goto(d, CASE r.outcome = "pending" -> "unlock"
                                 [] r.outcome = "ok" -> "poll"
                                 [] OTHER -> "unlockOnly")
                    /\ UNCHANGED <<migrations, activeMigrationId, written, hiwater,
                                   failure>>
  /\ UNCHANGED <<phase, migrationId, options, contact, resumes, batch, env>>
  /\ UNCHANGED serviceVars

UnlockOnly(d) ==
  /\ phase = "running" /\ pc[d] = "unlockOnly"
  /\ \E res \in {Ok} \cup GoDaddyErrorsNow :
       LET r == VoidPass(d, "unlockOnly", res)
       IN /\ req' = [req EXCEPT ![d] = r]
          /\ IF r.outcome = "error"
               THEN /\ Fail(d, {"prepareForTransfer"}, VoidError(r))
                    /\ UNCHANGED task
               ELSE /\ task' = [task EXCEPT ![d].attempt =
                                   IF r.outcome = "pending" THEN r.reqs ELSE 0]
                    /\ Log(d, {"prepareForTransfer"}, {})
                    /\ Goto(d, IF r.outcome = "pending" THEN "unlockOnly" ELSE "poll")
                    /\ UNCHANGED <<migrations, activeMigrationId, written, hiwater,
                                   failure>>
  /\ UNCHANGED <<phase, migrationId, options, contact, resumes, batch, env>>
  /\ UNCHANGED serviceVars

(* The poll after the unlock request: up to 6 reads of the domain detail. *)
UNLOCK_POLL_DELAY_MS == 5000

PollAgainOnce(attempt) == attempt + 1 < 2

(* for (let attempt = 0; attempt < 6; attempt++): another pass follows. *)
PollAgain(attempt) == attempt + 1 < UNLOCK_POLL_ATTEMPTS

(* One pass of the loop: the 5 s sleep, then getDomainDetail; task.elapsed *)
(* adds up the sleeps of the passes that read the domain locked.          *)
PollUnlock(d) ==
  /\ phase = "running" /\ pc[d] = "poll"
  /\ \/ \E locked \in LockedNow :
          IF ~locked
            THEN /\ Writes(d, <<<<"unlocked", NoExtra>>>>)
                 /\ Log(d, {"getDomainDetail"}, {"unlock"})
                 /\ task' = [task EXCEPT ![d].attempt = 0, ![d].elapsed = 0]
                 /\ Goto(d, "authCode")
                 /\ UNCHANGED failure
            ELSE IF PollAgain(task[d].attempt)
              THEN /\ task' = [task EXCEPT ![d].attempt = @ + 1,
                                           ![d].elapsed = @ + UNLOCK_POLL_DELAY_MS]
                   /\ Log(d, {"getDomainDetail"}, {})
                   /\ Goto(d, "poll")
                   /\ UNCHANGED <<migrations, activeMigrationId, written, hiwater,
                                  failure>>
              ELSE /\ Fail(d, {"getDomainDetail"}, PlainError("is still locked after unlock request"))
                   /\ UNCHANGED task
     \/ \E x \in GoDaddyErrorsNow :
          /\ Fail(d, {"getDomainDetail"}, GoDaddyApiError(x.status, x.body))
          /\ UNCHANGED task
  /\ UNCHANGED req
  /\ UNCHANGED <<phase, migrationId, options, contact, resumes, batch, env>>
  /\ UNCHANGED serviceVars

AuthWriteWithCode(code) == <<"auth_obtained", [authCode |-> code]>>

(* The write after getAuthCode: the status alone. *)
AuthWrite(code) == <<"auth_obtained", NoExtra>>

(* After the auth code is in hand: persist auth_obtained, then step 6. *)
AuthObtained(d, code, call) ==
  /\ Writes(d, <<AuthWrite(code)>>)
  /\ Log(d, call, {"auth"})
  /\ task' = [task EXCEPT ![d].authCode = code]
  /\ IF Len(task[d].zone[1].name_servers) > 0 THEN Goto(d, "updateNs")
     ELSE IF ContactParameter(contact) THEN Goto(d, "waitZone")
     ELSE Succeed(d)
  /\ UNCHANGED failure

NoAuthCodeError ==
  [name |-> "GoDaddyApiError",
   message |-> <<"No auth code available for", "check", "GoDaddy", "dashboard">>,
   statusCode |-> 404, responseBody |-> ""]

(* Step 5: getAuthCode, the dedicated endpoint first. *)
FallsBackOnAnyError(x) == TRUE

(* err instanceof GoDaddyApiError && err.statusCode === 404 *)
FallsBack(x) == x.status = 404

GetAuthCode(d) ==
  /\ phase = "running" /\ pc[d] = "authCode"
  /\ \/ /\ AuthObtained(d, "secret", {"getAuthCode"})
        /\ req' = [req EXCEPT ![d] = [NewReq EXCEPT !.last = Some(Ok)]]
     \/ \E x \in GoDaddyErrorsNow \cup {[status |-> 404, body |-> "NOT_FOUND"]} :
          /\ req' = [req EXCEPT ![d] = [NewReq EXCEPT !.last = Some(x)]]
          /\ IF FallsBack(x)
            THEN /\ Log(d, {"getAuthCode"}, {})
                 /\ Goto(d, "authDetail")
                 /\ UNCHANGED <<migrations, activeMigrationId, written, hiwater,
                                task, failure>>
            ELSE /\ Fail(d, {"getAuthCode"}, GoDaddyApiError(x.status, x.body))
                 /\ UNCHANGED task
  /\ UNCHANGED <<phase, migrationId, options, contact, resumes, batch, env>>
  /\ UNCHANGED serviceVars

(* ... then the domain detail when that endpoint answers 404. *)
AuthFromDetail(d) ==
  /\ phase = "running" /\ pc[d] = "authDetail"
  /\ req' = [req EXCEPT ![d] = NewReq]
  /\ \/ AuthObtained(d, "secret", {"getDomainDetail"})
     \/ /\ Fail(d, {"getDomainDetail"}, NoAuthCodeError)
        /\ UNCHANGED task
     \/ \E x \in GoDaddyErrorsNow :
          /\ Fail(d, {"getDomainDetail"}, GoDaddyApiError(x.status, x.body))
          /\ UNCHANGED task
  /\ UNCHANGED <<phase, migrationId, options, contact, resumes, batch, env>>
  /\ UNCHANGED serviceVars

(* Step 6: push the zone's nameservers to GoDaddy. *)
UpdateNameservers(d) ==
  /\ phase = "running" /\ pc[d] = "updateNs"
  /\ \E res \in {Ok} \cup GoDaddyErrorsNow :
       LET r == VoidPass(d, "updateNameservers", res)
       IN /\ req' = [req EXCEPT ![d] = r]
          /\ CASE r.outcome = "error" ->
                   /\ Fail(d, {"updateNameservers"}, VoidError(r))
                   /\ UNCHANGED task
               [] r.outcome = "pending" ->
                   /\ task' = [task EXCEPT ![d].attempt = r.reqs]
                   /\ Log(d, {"updateNameservers"}, {})
                   /\ Goto(d, "updateNs")
                   /\ UNCHANGED <<migrations, activeMigrationId, written, hiwater,
                                  failure>>
               [] OTHER ->
                   /\ task' = [task EXCEPT ![d].attempt = 0]
                   /\ Writes(d, <<<<"ns_changed", NoExtra>>>>)
                   /\ Log(d, {"updateNameservers"}, {"ns"})
                   /\ IF ContactParameter(contact) THEN Goto(d, "waitZone")
                      ELSE Succeed(d)
                   /\ UNCHANGED failure
  /\ UNCHANGED <<phase, migrationId, options, contact, resumes, batch, env>>
  /\ UNCHANGED serviceVars

(* Step 7: waitForZoneActive polls until active or until the timeout. *)
timeoutMs == 300000
pollIntervalMs == 10000

ZoneTimeoutError ==
  [name |-> "CloudflareApiError",
   message |-> <<"Zone", "did not become active">>,
   statusCode |-> 408, responseBody |-> ""]

AfterZoneActiveSkipsCheck == "initiate"

(* What follows waitForZoneActive's return: step 8. *)
AfterZoneActive == "checkAuth"

(* What getZoneStatus read, kept as the request's last answer. *)
ZoneStatus(active) == [status |-> 200, body |-> IF active THEN "active" ELSE "pending"]

AfterNoSleep(elapsed) == elapsed

(* Date.now() - start after the sleep of pollIntervalMs that follows a poll. *)
AfterSleep(elapsed) == elapsed + pollIntervalMs

WaitForZoneActive(d) ==
  /\ phase = "running" /\ pc[d] = "waitZone"
  /\ \/ \E active \in ActiveNow :
          /\ req' = [req EXCEPT ![d] = [NewReq EXCEPT !.last = Some(ZoneStatus(active))]]
          /\ IF active
               THEN /\ Log(d, {"getZoneStatus"}, {})
                    /\ task' = [task EXCEPT ![d].elapsed = 0]
                    /\ Goto(d, AfterZoneActive)
                    /\ UNCHANGED <<migrations, activeMigrationId, written, hiwater,
                                   failure>>
               ELSE IF AfterSleep(task[d].elapsed) < timeoutMs
                 THEN /\ task' = [task EXCEPT ![d].elapsed = AfterSleep(@)]
                      /\ Log(d, {"getZoneStatus"}, {})
                      /\ Goto(d, "waitZone")
                      /\ UNCHANGED <<migrations, activeMigrationId, written, hiwater,
                                     failure>>
                 ELSE /\ Fail(d, {"getZoneStatus"}, ZoneTimeoutError)
                      /\ UNCHANGED task
     \/ \E x \in CloudflareErrorsNow :
          /\ req' = [req EXCEPT ![d] = [NewReq EXCEPT !.last = Some(x)]]
          /\ Fail(d, {"getZoneStatus"}, CloudflareApiError(x.status, x.body))
          /\ UNCHANGED task
  /\ UNCHANGED <<phase, migrationId, options, contact, resumes, batch, env>>
  /\ UNCHANGED serviceVars

(* Step 8: validate the auth code at Cloudflare. *)
CheckAuthCode(d) ==
  /\ phase = "running" /\ pc[d] = "checkAuth"
  /\ \/ /\ Log(d, {"checkAuthCode"}, {})
        /\ Goto(d, "initiate")
        /\ UNCHANGED <<migrations, activeMigrationId, written, hiwater, failure>>
     \/ \E x \in CloudflareErrorsNow :
          Fail(d, {"checkAuthCode"}, CloudflareApiError(x.status, x.body))
  /\ UNCHANGED <<task, req>>
  /\ UNCHANGED <<phase, migrationId, options, contact, resumes, batch, env>>
  /\ UNCHANGED serviceVars

(* Step 9: submit the transfer. *)
InitiateTransfer(d) ==
  /\ phase = "running" /\ pc[d] = "initiate"
  /\ \/ /\ Writes(d, <<<<"transfer_initiated", NoExtra>>>>)
        /\ Log(d, {"initiateTransfer"}, {"transfer"})
        /\ Succeed(d)
        /\ UNCHANGED failure
     \/ \E x \in CloudflareErrorsNow :
          Fail(d, {"initiateTransfer"}, CloudflareApiError(x.status, x.body))
  /\ UNCHANGED <<task, req>>
  /\ UNCHANGED <<phase, migrationId, options, contact, resumes, batch, env>>
  /\ UNCHANGED serviceVars

(***************************************************************************)
(* The commands.                                                           *)
(***************************************************************************)
MigrationOptions ==
  [dryRun : BOOLEAN, migrateRecords : BOOLEAN, proxied : {FALSE}]

(* migrateCommand: createMigration for the eligible domains, then the      *)
(* batch; a dry run passes no contact.                                     *)
MigrateCommand(sizes, choices) ==
  /\ phase = "idle"
  /\ \E n \in sizes, opts \in choices, ct \in BOOLEAN :
       /\ opts.dryRun => ~ct
       /\ migrations' = createMigration(migrations, 1..n)
       /\ activeMigrationId' = NewMigrationId(migrations)
       /\ hiwater' = [d \in Domains |-> IF d \in 1..n THEN Rank("pending") ELSE 0]
       /\ StartBatch(1..n, NewMigrationId(migrations), opts, ct)
  /\ UNCHANGED <<resumes, serviceVars>>

ResumeOptions == [dryRun |-> FALSE, migrateRecords |-> TRUE, proxied |-> FALSE]

(* resumeCommand: a batch for the resumable domains of the active run. *)
ResumeCommand ==
  /\ phase \in {"finished", "interrupted"}
  /\ resumes < MaxResumes
  /\ activeMigrationId # 0
  /\ UNCHANGED <<migrations, activeMigrationId, hiwater, serviceVars>>
  /\ LET resumable == getResumableDomains(migrations, activeMigrationId)
     IN /\ resumable # {}
        /\ Cardinality(resumable) <= MaxResumeBatch
        /\ StartBatch(resumable, activeMigrationId, ResumeOptions, FALSE)
  /\ resumes' = resumes + 1

(* tasks.run(ctx) returns once every task has settled. *)
BatchEnd ==
  /\ phase = "running"
  /\ \A d \in Domains : ~Running(d)
  /\ phase' = "finished"
  /\ UNCHANGED <<migrationId, options, contact, queue, results, resumes, batch, env>>
  /\ UNCHANGED <<storeVars, taskVars, histVars, serviceVars>>

(* SIGINT or SIGTERM: the handler prints and exits; every task stops where *)
(* it stands and the store keeps what was written.                         *)
Interrupt ==
  /\ phase = "running"
  /\ \E d \in Domains : Running(d)
  /\ phase' = "interrupted"
  /\ pc' = [d \in Domains |-> IF Running(d) \/ pc[d] = "queued" THEN "idle" ELSE pc[d]]
  /\ UNCHANGED <<migrationId, options, contact, queue, results, resumes, batch, env>>
  /\ UNCHANGED <<storeVars, task, req, histVars, serviceVars>>

pipelineVars == <<storeVars, batchVars, taskVars, histVars>>
vars == <<pipelineVars, serviceVars>>

NoBatch ==
  /\ now = 0
  /\ migrations = [i \in {} |-> NoValue]
  /\ activeMigrationId = 0
  /\ phase = "idle"
  /\ migrationId = 0
  /\ options = [dryRun |-> FALSE, migrateRecords |-> FALSE, proxied |-> FALSE]
  /\ contact = FALSE
  /\ queue = <<>>
  /\ results = [d \in Domains |-> None]
  /\ resumes = 0
  /\ batch = {}
  /\ env = "narrow"
  /\ pc = [d \in Domains |-> "idle"]
  /\ task = [d \in Domains |-> NewTask]
  /\ req = [d \in Domains |-> NewReq]
  /\ written = [d \in Domains |-> <<>>]
  /\ hiwater = [d \in Domains |-> 0]
  /\ trace = [d \in Domains |-> NewTrace]
  /\ doneBefore = [d \in Domains |-> {}]
  /\ failure = [d \in Domains |-> None]

Init == NoBatch /\ LimiterIdle /\ ClientIdle /\ PreflightIdle

Step(d) ==
  \/ ExportDns(d)
  \/ CreateZone(d)
  \/ LookupZone(d)
  \/ CreateRecord(d)
  \/ RemovePrivacy(d)
  \/ PrepareForTransfer(d)
  \/ UnlockOnly(d)
  \/ PollUnlock(d)
  \/ GetAuthCode(d)
  \/ AuthFromDetail(d)
  \/ UpdateNameservers(d)
  \/ WaitForZoneActive(d)
  \/ CheckAuthCode(d)
  \/ InitiateTransfer(d)

(* One domain, the providers' full range of answers. *)
Next ==
  \/ MigrateCommand({1}, MigrationOptions)
  \/ ResumeCommand
  \/ BatchEnd
  \/ Interrupt
  \/ \E d \in Domains : Step(d)

Spec == Init /\ [][Next]_vars

(* Several domains side by side. *)
NextMulti ==
  \/ MigrateCommand(2..NumDomains, MigrationOptions)
  \/ ResumeCommand
  \/ BatchEnd
  \/ Interrupt
  \/ \E d \in Domains : Step(d)

SpecMulti == Init /\ [][NextMulti]_vars

(* A batch larger than Listr's concurrency, as dry runs. *)
DryRunOptions == {opts \in MigrationOptions : opts.dryRun}

NextBatch ==
  \/ MigrateCommand({BatchSize}, DryRunOptions)
  \/ BatchEnd
  \/ Interrupt
  \/ \E d \in Domains : ExportDns(d)

SpecBatch == Init /\ [][NextBatch]_vars

(***************************************************************************)
(* Properties of the pipeline, the store, resume and the batch.            *)
(***************************************************************************)
Known(d) ==
  /\ activeMigrationId \in DOMAIN migrations
  /\ d \in DOMAIN migrations[activeMigrationId].domains

StateOf(d) == migrations[activeMigrationId].domains[d]

StepCalls(step) ==
  CASE step = "export" -> {"getDnsRecords"}
    [] step = "zone" -> {"createZone"}
    [] step = "records" -> {"createDnsRecord"}
    [] step = "privacy" -> {"removePrivacy"}
    [] step = "unlock" -> {"prepareForTransfer"}
    [] step = "auth" -> {"getAuthCode"}
    [] step = "ns" -> {"updateNameservers"}
    [] OTHER -> {}

Terminal == {"completed", "transfer_initiated"}

(* C3: getResumableDomains returns exactly the run's domains whose status  *)
(* is neither completed nor transfer_initiated, nothing for an unknown run *)
(* id; resumeCommand starts a pipeline only for those, and in a resumed    *)
(* batch no other domain's pipeline issues a call.                         *)
ResumeOnlyResumable ==
  /\ [](\A id \in DOMAIN migrations \cup {0, NewMigrationId(migrations)} :
          getResumableDomains(migrations, id) =
            IF id \in DOMAIN migrations
              THEN {d \in DOMAIN migrations[id].domains :
                      migrations[id].domains[d].status \notin Terminal}
              ELSE {})
  /\ [](\A d \in Domains : resumes >= 1 /\ trace[d].calls # {} => d \in batch)
  /\ [][resumes' = resumes + 1 =>
          \A d \in Domains :
            (pc'[d] # "idle" \/ d \in batch')
              => Known(d) /\ StateOf(d).status \notin Terminal]_vars

(* Of two domains the one at transfer_initiated is left alone by the       *)
(* resume that runs the other.                                             *)
ResumeLeavesInitiatedAlone ==
  /\ resumes = 1
  /\ batch = {2}
  /\ StateOf(1).status = "transfer_initiated"
  /\ trace[1].calls = {}
  /\ "createZone" \in trace[2].calls

PcOrder ==
  <<"export", "createZone", "lookupZone", "createRecord", "privacy", "unlock",
    "unlockOnly", "poll", "authCode", "authDetail", "updateNs", "waitZone",
    "checkAuth", "initiate">>

PcCalls(p) ==
  CASE p = "export" -> "getDnsRecords"
    [] p = "createZone" -> "createZone"
    [] p = "lookupZone" -> "getZoneByName"
    [] p = "createRecord" -> "createDnsRecord"
    [] p = "privacy" -> "removePrivacy"
    [] p \in {"unlock", "unlockOnly"} -> "prepareForTransfer"
    [] p \in {"poll", "authDetail"} -> "getDomainDetail"
    [] p = "authCode" -> "getAuthCode"
    [] p = "updateNs" -> "updateNameservers"
    [] p = "waitZone" -> "getZoneStatus"
    [] p = "checkAuth" -> "checkAuthCode"
    [] p = "initiate" -> "initiateTransfer"

CallsUpTo(p) ==
  LET last == CHOOSE i \in 1..Len(PcOrder) : PcOrder[i] = p
  IN {PcCalls(PcOrder[i]) : i \in 1..last}

(* C4: when a step raises an error it does not handle, the execution       *)
(* issues no call of a later step, the persisted status is failed with a   *)
(* non-empty error that carries the error's message, and the same error    *)
(* reaches the caller.                                                     *)
FailureAbortsAndIsRecorded ==
  \A d \in Domains :
    failure[d] # None =>
      LET f == failure[d][1]
          msg == f.err.message
      IN /\ pc[d] = "done"
         /\ trace[d].calls \subseteq CallsUpTo(f.at)
         /\ StateOf(d).status = "failed"
         /\ StateOf(d).error # <<>>
         /\ Len(StateOf(d).error) >= Len(msg)
         /\ SubSeq(StateOf(d).error, 1, Len(msg)) = msg
         /\ msg # <<>>
         /\ results[d] = Some([success |-> FALSE, error |-> msg])

(* The nameserver update fails after the unlock and the auth code; the     *)
(* stored error carries a suggestion.                                      *)
FailedAtNameservers ==
  \E d \in Domains :
    /\ failure[d] # None
    /\ failure[d][1].at = "updateNs"
    /\ "unlocked" \in {written[d][i] : i \in 1..Len(written[d])}
    /\ Includes(StateOf(d).error, "| Suggestion:")

NormalEnds ==
  IF options.dryRun THEN {"pending"}
  ELSE IF ContactParameter(contact) THEN {"transfer_initiated"}
  ELSE {"auth_obtained", "ns_changed"}

(* C5: when the batch run has finished, every domain of the batch has a    *)
(* result entry, the entry is a failure exactly for the domains whose      *)
(* pipeline failed, the store holds failed exactly for those, and every    *)
(* other domain ran its pipeline to its normal end.                        *)
FailureStaysWithItsDomain ==
  phase = "finished" =>
    \A d \in batch :
      /\ results[d] # None
      /\ results[d][1].success <=> failure[d] = None
      /\ StateOf(d).status = "failed" <=> failure[d] # None
      /\ failure[d] = None => StateOf(d).status \in NormalEnds

(* Domain 1 fails at the DNS backup, its sibling reaches                   *)
(* transfer_initiated.                                                     *)
SiblingFinishesAfterFailure ==
  /\ phase = "finished"
  /\ batch = {1, 2}
  /\ failure[1] # None
  /\ failure[1][1].at = "export"
  /\ failure[2] = None
  /\ StateOf(2).status = "transfer_initiated"

InProgress == {d \in Domains : Running(d)}

(* C6: at most 8 pipelines are in progress at any moment of a batch run,   *)
(* and a domain waits only while 8 are in progress.                        *)
AtMostEightInProgress ==
  /\ Cardinality(InProgress) <= 8
  /\ phase = "running" /\ queue # <<>> => Cardinality(InProgress) = 8
  /\ phase = "running" =>
       \A d \in Domains : pc[d] = "queued" <=> \E i \in 1..Len(queue) : queue[i] = d

(* Of 10 domains one has ended, the ninth has taken its place and the      *)
(* tenth waits.                                                            *)
NinthStartedTenthWaits ==
  /\ phase = "running"
  /\ Cardinality(batch) = 10
  /\ Cardinality(InProgress) = 8
  /\ queue = <<10>>
  /\ Running(9)
  /\ \E d \in Domains : pc[d] = "done"

OnlyLockResponsesAreRetried ==
  \A d \in Domains :
    LET r == req[d]
    IN /\ r.reqs <= RESOURCE_LOCK_MAX_RETRIES + 1
       /\ r.reqs <= r.locks + 1
       /\ r.outcome = "pending" => Len(r.sleeps) = r.reqs /\ r.locks = r.reqs
       /\ r.outcome \in {"ok", "error"} => Len(r.sleeps) = r.reqs - 1
       /\ r.outcome = "error" =>
            /\ ~ResOk(r.last[1])
            /\ IsLockResponse(r.last[1]) => r.reqs = RESOURCE_LOCK_MAX_RETRIES + 1
            /\ VoidError(r).name = "GoDaddyApiError"
            /\ VoidError(r).statusCode = r.last[1].status
            /\ VoidError(r).responseBody = r.last[1].body
            /\ (failure[d] # None /\ r.call # "removePrivacy")
                 => failure[d][1].err = VoidError(r)

(* The nameserver update got the lock response to every one of its 5       *)
(* requests and failed with the 422.                                       *)
LockOnLastAttemptFails ==
  \E d \in Domains :
    /\ req[d].call = "updateNameservers"
    /\ req[d].outcome = "error"
    /\ req[d].reqs = 5
    /\ req[d].locks = 5
    /\ Len(req[d].sleeps) = 4
    /\ failure[d] # None
    /\ failure[d][1].err.statusCode = 422

(***************************************************************************)
(* Properties of the pipeline: the auth code, contact, dry run.            *)
(***************************************************************************)
AuthCodes == {"secret"}

Persisted ==
  {migrations[x[1]].domains[x[2]] :
     x \in {y \in (DOMAIN migrations) \X Domains : y[2] \in DOMAIN migrations[y[1]].domains}}

Holds(value, code) == ToString(value) = ToString(code)

SeqFields == {"error", "dnsRecordsBackup", "cloudflareNameservers"}

TransferCalls == {"getZoneStatus", "checkAuthCode", "initiateTransfer"}

WrittenBy(d) == {written[d][i] : i \in 1..Len(written[d])}

(* C13: when the command holds no registrant contact, a pipeline of its    *)
(* batch never calls waitForZoneActive, checkAuthCode or initiateTransfer  *)
(* and never persists transfer_initiated; it stops after the nameserver    *)
(* update with persisted status ns_changed and counts as a success.        *)
NoContactStopsAtNameservers ==
  \A d \in Domains :
    phase # "idle" /\ d \in batch /\ ~contact /\ ~options.dryRun =>
      /\ pc[d] \notin {"waitZone", "checkAuth", "initiate"}
      /\ trace[d].calls \cap TransferCalls = {}
      /\ "transfer_initiated" \notin WrittenBy(d)
      /\ pc[d] = "done" /\ failure[d] = None /\ results[d] # None =>
           /\ results[d][1].success
           /\ StateOf(d).status = "ns_changed"

(* What is left of C13 when the contact parameter is as the command holds  *)
(* it: the transfer steps are not entered without a contact.               *)
NoContactNoTransferCalls ==
  \A d \in Domains :
    phase # "idle" /\ d \in batch /\ ~contact /\ ~options.dryRun =>
      /\ pc[d] \notin {"waitZone", "checkAuth", "initiate"}
      /\ trace[d].calls \cap TransferCalls = {}
      /\ "transfer_initiated" \notin WrittenBy(d)

(* C14: a dry run performs only the DNS backup: its one provider call is   *)
(* getDnsRecords, no destination request and no mutating source request is *)
(* made, the only status it persists is pending (failed when the export    *)
(* itself fails), and when the export succeeds the records are in the      *)
(* store, the status is pending and the task counts as a success.          *)
DryRunOnlyBacksUp ==
  \A d \in Domains :
    phase # "idle" /\ d \in batch /\ options.dryRun =>
      /\ pc[d] \in {"idle", "queued", "export", "done"}
      /\ trace[d].calls \subseteq {"getDnsRecords"}
      /\ WrittenBy(d) \subseteq {"pending", "failed"}
      /\ pc[d] = "done" /\ failure[d] = None /\ results[d] # None =>
           /\ results[d][1].success
           /\ "export" \in trace[d].done
           /\ written[d] = <<"pending">>
           /\ StateOf(d).status = "pending"
           /\ StateOf(d).dnsRecordsBackup = task[d].dnsRecords

(* A dry run has ended with a record in the backup. *)
DryRunBackedUp ==
  \E d \in Domains :
    /\ options.dryRun /\ d \in batch
    /\ pc[d] = "done" /\ results[d] # None /\ results[d][1].success
    /\ Len(StateOf(d).dnsRecordsBackup) > 0

RECURSIVE Distinct(_)
Distinct(w) ==
  IF Len(w) <= 1 THEN w
  ELSE IF w[1] = w[2] THEN Distinct(Tail(w))
  ELSE <<w[1]>> \o Distinct(Tail(w))

FullRun(d) ==
  /\ phase # "idle" /\ d \in batch
  /\ ~options.dryRun /\ options.migrateRecords /\ contact
  /\ pc[d] = "done" /\ failure[d] = None
  /\ results[d] # None /\ results[d][1].success

(* C15: in a successful run, not a dry run, with DNS record migration and  *)
(* a registrant contact, the distinct statuses persisted for the domain    *)
(* are exactly pending, dns_migrated, unlocked, auth_obtained, ns_changed, *)
(* transfer_initiated, in this order and none skipped, whatever the zone   *)
(* returned, a zone without nameservers included.                          *)
EveryStatusPersistedInOrder ==
  \A d \in Domains :
    FullRun(d) =>
      Distinct(written[d]) = <<"pending", "dns_migrated", "unlocked", "auth_obtained",
                               "ns_changed", "transfer_initiated">>

(* The same for the zones that came with nameservers. *)
EveryStatusPersistedGivenNameservers ==
  \A d \in Domains :
    FullRun(d) /\ StateOf(d).cloudflareNameservers # Some(<<>>) =>
      Distinct(written[d]) = <<"pending", "dns_migrated", "unlocked", "auth_obtained",
                               "ns_changed", "transfer_initiated">>

DoneSoFar(d) == doneBefore[d] \cup trace[d].done

Reached(d, status) ==
  StateOf(d).status # "failed" /\ Rank(StateOf(d).status) >= Rank(status)

(* C16: at every state, one after an interrupt included, the persisted     *)
(* status stands for side effects already performed: dns_migrated or later *)
(* means the zone was created or found and its id is in the record,        *)
(* unlocked or later that the lock flag was read false, ns_changed or      *)
(* later that the nameserver update succeeded, transfer_initiated that     *)
(* initiateTransfer succeeded.                                             *)
StatusImpliesSideEffects ==
  \A d \in Domains :
    Known(d) =>
      /\ Reached(d, "dns_migrated") =>
           "zone" \in DoneSoFar(d) /\ StateOf(d).cloudflareZoneId # NoValue
      /\ Reached(d, "unlocked") => "unlock" \in DoneSoFar(d)
      /\ Reached(d, "ns_changed") => "ns" \in DoneSoFar(d)
      /\ Reached(d, "transfer_initiated") => "transfer" \in DoneSoFar(d)

(* The same with the nameserver update left to the zones that have any.    *)
StatusImpliesSideEffectsGivenNameservers ==
  \A d \in Domains :
    Known(d) =>
      /\ Reached(d, "dns_migrated") =>
           "zone" \in DoneSoFar(d) /\ StateOf(d).cloudflareZoneId # NoValue
      /\ Reached(d, "unlocked") => "unlock" \in DoneSoFar(d)
      /\ Reached(d, "ns_changed") /\ StateOf(d).cloudflareNameservers # Some(<<>>) =>
           "ns" \in DoneSoFar(d)
      /\ Reached(d, "transfer_initiated") => "transfer" \in DoneSoFar(d)

(* C17: a DNS record the destination rejects never makes the domain fail: *)
(* no failure arises in migrateDnsRecords, the rejection is only counted,   *)
(* dns_migrated is persisted once the records are through and the pipeline  *)
(* goes on to the privacy step.                                            *)
RecordFailuresNeverFatal ==
  \A d \in Domains :
    /\ failure[d] # None => failure[d][1].at # "createRecord"
    /\ task[d].created + task[d].failed <= Len(task[d].cfRecords)
    /\ phase = "running" /\ task[d].failed > 0 /\ pc[d] # "createRecord" =>
         /\ "dns_migrated" \in WrittenBy(d)
         /\ "records" \in trace[d].done
         /\ failure[d] = None => pc[d] # "done" \/ results[d][1].success

(* A record was rejected and the domain went on to be unlocked. *)
UnlockedAfterRecordFailure ==
  \E d \in Domains :
    /\ task[d].failed > 0
    /\ task[d].created = 0
    /\ StateOf(d).status = "unlocked"

(***************************************************************************)
(* Properties of the pipeline: the order of its calls and writes.          *)
(***************************************************************************)
PcIndex(p) == CHOOSE i \in 1..Len(PcOrder) : PcOrder[i] = p

InPipeline(p) == \E i \in 1..Len(PcOrder) : PcOrder[i] = p

(* The pipeline only moves forward, and what it calls is its step's call. *)
CallsInPipelineOrder ==
  \A d \in Domains :
    InPipeline(pc[d]) =>
      /\ InPipeline(pc'[d]) => PcIndex(pc'[d]) >= PcIndex(pc[d])
      /\ trace'[d].calls \ trace[d].calls \subseteq {PcCalls(pc[d])}

(* Step 8 begins only when waitForZoneActive saw the zone active, step 9 *)
(* only when checkAuthCode returned.                                     *)
TransferAfterActiveAndChecked ==
  \A d \in Domains :
    /\ pc'[d] = "checkAuth" /\ pc[d] # "checkAuth" =>
         /\ pc[d] = "waitZone"
         /\ "getZoneStatus" \in trace'[d].calls
    /\ pc'[d] = "initiate" /\ pc[d] # "initiate" =>
         /\ pc[d] = "checkAuth"
         /\ "checkAuthCode" \in trace'[d].calls
         /\ failure'[d] = None

(* The status on disk while the pipeline is about to make a step's call. *)
StatusBeforeCall(d) ==
  LET status == migrations[migrationId].domains[d].status
      record == migrations[migrationId].domains[d]
  IN CASE pc[d] = "createRecord" ->
            /\ status = "pending"
            /\ record.cloudflareZoneId = task[d].zone[1].id
       [] pc[d] \in {"privacy", "unlock", "unlockOnly", "poll"} -> status = "dns_migrated"
       [] pc[d] \in {"authCode", "authDetail"} -> status = "unlocked"
       [] pc[d] = "updateNs" -> status = "auth_obtained"
       [] pc[d] \in {"waitZone", "checkAuth", "initiate"} ->
            status = IF "updateNameservers" \in trace[d].calls
                     THEN "ns_changed" ELSE "auth_obtained"
       [] OTHER -> TRUE

CallsAfterTheirConditions ==
  \A d \in Domains :
    /\ StatusBeforeCall(d)
    /\ "updateNameservers" \in trace[d].calls =>
         /\ "auth" \in trace[d].done
         /\ "auth_obtained" \in {written[d][i] : i \in 1..Len(written[d])}
    /\ "initiateTransfer" \in trace[d].calls =>
         {"getZoneStatus", "checkAuthCode"} \subseteq trace[d].calls

(* C24: within one transferDomain execution the provider calls are made in *)
(* the order export, zone creation, record creation, privacy removal,      *)
(* unlock, lock polling, auth-code fetch, nameserver update, zone wait,    *)
(* auth-code check, transfer submission; each status write is on disk      *)
(* before the next step's first call; initiateTransfer comes only after    *)
(* waitForZoneActive returned an active zone and checkAuthCode succeeded,  *)
(* and updateNameservers only after the auth code was obtained.            *)
CallsAndWritesInFixedOrder ==
  /\ []CallsAfterTheirConditions
  /\ [][CallsInPipelineOrder /\ TransferAfterActiveAndChecked]_vars

(* A pipeline that made every one of its calls, the last being the transfer. *)
EveryCallMade ==
  \E d \in Domains :
    /\ pc[d] = "done"
    /\ {"getDnsRecords", "createZone", "createDnsRecord", "removePrivacy",
        "prepareForTransfer", "getDomainDetail", "getAuthCode", "updateNameservers",
        "getZoneStatus", "checkAuthCode", "initiateTransfer"} \subseteq trace[d].calls
    /\ SubSeq(written[d], Len(written[d]) - 5, Len(written[d])) =
         <<"pending", "dns_migrated", "unlocked", "auth_obtained", "ns_changed",
           "transfer_initiated">>

(***************************************************************************)
(* Properties of the pipelines' store writes.                              *)
(***************************************************************************)
Last(seq) == seq[Len(seq)]

(* The store holds the latest status every pipeline of the run has written. *)
LatestWritesHeld ==
  \A d \in Domains :
    written[d] # <<>> => migrations[migrationId].domains[d].status = Last(written[d])

(* A pipeline's write changes the record of its own domain only. *)
WriteLeavesOtherDomains ==
  \A d \in Domains :
    written'[d] # written[d] /\ written'[d] # <<>> =>
      \A e \in DOMAIN migrations[migrationId].domains \ {d} :
        migrations'[migrationId].domains[e] = migrations[migrationId].domains[e]

(* C27: when several pipelines of one run write to the store concurrently, *)
(* no write is lost: under every interleaving the store holds each         *)
(* domain's latest update, and a write for one domain never takes another  *)
(* domain's record back to an older value.                                 *)
NoStoreWriteLost == []LatestWritesHeld /\ [][WriteLeavesOtherDomains]_vars

(* Two pipelines in flight, each past several writes, at different steps. *)
TwoPipelinesWriting ==
  /\ pc[1] \notin {"idle", "queued", "done"}
  /\ pc[2] \notin {"idle", "queued", "done"}
  /\ Len(written[1]) >= 3
  /\ Len(written[2]) >= 2
  /\ Last(written[1]) # Last(written[2])

(***************************************************************************)
(* Properties of zone provisioning, the unlock poll and the auth code.     *)
(***************************************************************************)
Calls(d, call) == call \in trace'[d].calls /\ call \notin trace[d].calls

RecordOf(d) == migrations[migrationId].domains[d]

(* createZone was called: it returned, or led to the lookup, or failed the *)
(* domain with an error other than 'already exists'.                      *)
CreateZoneOutcome(d) ==
  Calls(d, "createZone") =>
    \/ /\ task'[d].zone # None /\ failure'[d] = None
    \/ /\ pc'[d] = "lookupZone"
       /\ Includes(task'[d].caught[1].message, "already exists")
       /\ migrations' = migrations
    \/ /\ failure'[d] # None
       /\ ~Includes(failure'[d][1].err.message, "already exists")
       /\ migrations'[migrationId].domains[d].status = "failed"
       /\ pc'[d] = "done"

(* getZoneByName was called: the zone it found is persisted with status  *)
(* pending and the pipeline goes on to the records; no zone found fails  *)
(* the domain with createZone's error.                                   *)
LookupZoneOutcome(d) ==
  Calls(d, "getZoneByName") =>
    \/ /\ failure'[d] = None
       /\ task'[d].zone # None
       /\ written'[d][Len(written[d]) + 1] = "pending"
       /\ migrations'[migrationId].domains[d].cloudflareZoneId = task'[d].zone[1].id
       /\ migrations'[migrationId].domains[d].cloudflareNameservers =
            Some(task'[d].zone[1].name_servers)
       /\ pc'[d] \in {"createRecord", "privacy"}
    \/ /\ failure'[d] # None
       /\ \/ failure'[d][1].err = task[d].caught[1]
          \/ failure'[d][1].err \in
               {CloudflareApiError(x.status, x.body) : x \in CloudflareErrors}
       /\ migrations'[migrationId].domains[d].status = "failed"
       /\ pc'[d] = "done"

(* C28: when createZone fails with 'already exists', transferDomain looks  *)
(* the zone up by name and continues with the zone found as if it had been *)
(* created, persisting its id and nameservers with status pending; when    *)
(* the lookup finds no zone, or createZone fails for another reason, the   *)
(* createZone error fails the domain.                                      *)
ExistingZoneIsLookedUp ==
  [][\A d \in Domains : CreateZoneOutcome(d) /\ LookupZoneOutcome(d)]_vars

(* A zone that already existed was found by name and its id persisted. *)
ExistingZoneFound ==
  \E d \in Domains :
    /\ "getZoneByName" \in trace[d].calls
    /\ pc[d] = "createRecord"
    /\ RecordOf(d).status = "pending"
    /\ RecordOf(d).cloudflareZoneId = "zone"
    /\ RecordOf(d).cloudflareNameservers = Some(<<"ns1", "ns2">>)

AfterUnlock == {"getAuthCode", "updateNameservers", "getZoneStatus", "checkAuthCode",
                "initiateTransfer"}

StillLocked(d) ==
  /\ failure[d] # None
  /\ failure[d][1].at = "poll"
  /\ failure[d][1].err = PlainError("is still locked after unlock request")

(* While polling, fewer than 6 polls have read the domain locked, each    *)
(* after one delay; the sixth such poll fails the domain before any later *)
(* step's call; unlocked is on disk only after a poll read the lock off.  *)
PollsBounded ==
  \A d \in Domains :
    /\ pc[d] = "poll" =>
         /\ task[d].attempt < UNLOCK_POLL_ATTEMPTS
         /\ task[d].elapsed = UNLOCK_POLL_DELAY_MS * task[d].attempt
    /\ StillLocked(d) =>
         /\ task[d].attempt = UNLOCK_POLL_ATTEMPTS - 1
         /\ RecordOf(d).status = "failed"
         /\ trace[d].calls \cap AfterUnlock = {}
         /\ \A i \in 1..Len(written[d]) : written[d][i] # "unlocked"
    /\ (\E i \in 1..Len(written[d]) : written[d][i] = "unlocked") =>
         "unlock" \in trace[d].done

(* A poll that reads the lock off is the last one, and it is what writes *)
(* unlocked.                                                             *)
PollStopsAtUnlocked ==
  \A d \in Domains :
    /\ Len(written'[d]) > Len(written[d]) /\ Last(written'[d]) = "unlocked" =>
         /\ pc[d] = "poll"
         /\ pc'[d] = "authCode"
         /\ "getDomainDetail" \in trace'[d].calls
    /\ pc[d] = "poll" /\ pc'[d] = "poll" => written'[d] = written[d]

(* C29: after the unlock request transferDomain polls the domain detail at *)
(* most 6 times, a fixed delay before each poll, and stops at the first    *)
(* poll that reads the lock flag false; unlocked is persisted only after   *)
(* such a poll; when all 6 polls read the domain locked it fails and no    *)
(* auth-code fetch, nameserver update or transfer is attempted.            *)
UnlockPollIsBounded == []PollsBounded /\ [][PollStopsAtUnlocked]_vars

(* The sixth poll read the domain still locked. *)
SixPollsLocked == \E d \in Domains : StillLocked(d)

Wrote(d, status) ==
  /\ Len(written'[d]) = Len(written[d]) + 1
  /\ Last(written'[d]) = status

(* The dedicated endpoint answered: its code is the result; 404 leads to  *)
(* the domain detail; any other error fails the domain as it is.          *)
AuthEndpointOutcome(d) ==
  Calls(d, "getAuthCode") =>
    LET res == req'[d].last[1]
    IN \/ /\ ResOk(res)
          /\ task'[d].authCode = "secret"
          /\ Wrote(d, "auth_obtained")
          /\ pc'[d] # "authDetail"
       \/ /\ res.status = 404
          /\ pc'[d] = "authDetail"
          /\ failure'[d] = None
          /\ written'[d] = written[d]
       \/ /\ ~ResOk(res) /\ res.status # 404
          /\ failure'[d] # None
          /\ failure'[d][1].err = GoDaddyApiError(res.status, res.body)
          /\ Wrote(d, "failed")
          /\ pc'[d] = "done"

(* The fallback read answered: the detail's code is the result; a detail  *)
(* without a code fails the domain.                                       *)
AuthDetailOutcome(d) ==
  pc[d] = "authDetail" /\ Len(written'[d]) > Len(written[d]) =>
    \/ /\ task'[d].authCode = "secret"
       /\ Wrote(d, "auth_obtained")
       /\ failure'[d] = None
    \/ /\ failure'[d] # None
       /\ Wrote(d, "failed")
       /\ pc'[d] = "done"
       /\ task'[d].authCode = NoValue

(* C30: getAuthCode returns the code of the dedicated endpoint when that   *)
(* endpoint succeeds; on a 404 it reads the domain detail and returns the  *)
(* code found there; a detail without a code is an error that fails the    *)
(* domain; any other failure of the dedicated endpoint propagates with no  *)
(* fallback read.                                                          *)
AuthCodeFallsBackOn404Only ==
  [][\A d \in Domains : AuthEndpointOutcome(d) /\ AuthDetailOutcome(d)]_vars

(* The endpoint answered 404 and the detail held no code. *)
NoCodeInDetail ==
  \E d \in Domains :
    /\ failure[d] # None
    /\ failure[d][1].at = "authDetail"
    /\ failure[d][1].err = NoAuthCodeError
    /\ RecordOf(d).status = "failed"

(* The endpoint answered 404 and the detail held the code. *)
CodeFromDetail ==
  \E d \in Domains :
    /\ "getAuthCode" \in trace[d].calls
    /\ req[d].last = None
    /\ pc[d] = "updateNs"
    /\ task[d].authCode = "secret"

(***************************************************************************)
(* Concurrent callers of one RateLimiter.                                  *)
(***************************************************************************)
Admit(c, r) ==
  /\ timestamps' = r.timestamps
  /\ IF r.admitted
       THEN /\ caller' = [caller EXCEPT ![c] = Idle]
            /\ admissions' = Append(admissions, 0)
       ELSE /\ caller' = [caller EXCEPT ![c] = [state |-> "sleeping", waitMs |-> r.waitMs]]
            /\ UNCHANGED admissions
  /\ UNCHANGED <<config, pipelineVars, now, functionVars>>

(* A caller calls acquire(). *)
Acquire(c) ==
  /\ caller[c].state = "idle"
  /\ Admit(c, acquire(timestamps, config))
  /\ UNCHANGED <<client, adapterVars>>

(* Its sleep is over: return this.acquire(). *)
Wake(c) ==
  /\ caller[c].state = "sleeping"
  /\ caller[c].waitMs = 0
  /\ Admit(c, acquire(timestamps, config))
  /\ UNCHANGED <<client, adapterVars>>

Older(ages, limit) == [i \in 1..Len(ages) |-> MinOf(ages[i] + TickMs, limit)]

(* The clock advances. *)
Tick ==
  /\ timestamps' = Older(timestamps, config.windowMs)
  /\ admissions' = InWindow(Older(admissions, config.windowMs), config)
  /\ caller' = [c \in Callers |-> [caller[c] EXCEPT !.waitMs = MaxOf(0, @ - TickMs)]]
  /\ UNCHANGED <<config, pipelineVars, now, client, functionVars, adapterVars>>

InitLimiter ==
  /\ NoBatch
  /\ ClientIdle
  /\ PreflightIdle
  /\ config \in [requests : 1..MaxRequests, windowMs : {WindowMs}]
  /\ timestamps = <<>>
  /\ caller = [c \in Callers |-> Idle]
  /\ admissions = <<>>

NextLimiter ==
  \/ \E c \in Callers : Acquire(c)
  \/ \E c \in Callers : Wake(c)
  \/ Tick

(* Time advances and a caller whose sleep is over runs. *)
SpecLimiter ==
  /\ InitLimiter
  /\ [][NextLimiter]_vars
  /\ WF_vars(Tick)
  /\ \A c \in Callers : WF_vars(Wake(c))

(***************************************************************************)
(* Properties of the RateLimiter.                                          *)
(***************************************************************************)

(* C7: whatever the interleaving of the callers, the acquire() calls       *)
(* admitted inside the trailing window of windowMs are never more than     *)
(* 'requests'.                                                             *)
AdmissionsWithinBudget == Len(admissions) <= config.requests

(* The budget of 2 is spent by admissions at different times and a caller  *)
(* that found the window full is asleep.                                   *)
BudgetSpentCallerAsleep ==
  /\ config.requests = 2
  /\ Len(admissions) = 2
  /\ admissions[1] > admissions[2]
  /\ \E c \in Callers : caller[c].state = "sleeping"

(* C8: no caller of acquire() is starved: a caller that sleeps in          *)
(* acquire() is eventually admitted, even while other callers keep         *)
(* arriving.                                                               *)
NoCallerStarved ==
  \A c \in Callers : (caller[c].state = "sleeping") ~> (caller[c].state = "idle")

(***************************************************************************)
(* GoDaddyClient's request methods.  The client is caller 1 of the         *)
(* godaddyRateLimiter; a backoff sleep is logged, its time is not counted. *)
(***************************************************************************)
RESOURCE_LOCK_MAX_RETRIES_fetchWithRetry == 6

ClientCaller == 1

(* request and requestText where they do not go through fetchWithRetry:   *)
(* one fetch, a non-2xx answer is thrown.                                  *)
request(r, res) ==
  LET sent == [r EXCEPT !.reqs = @ + 1, !.last = Some(res),
                        !.locks = IF IsLockResponse(res) THEN @ + 1 ELSE @]
  IN IF ResOk(res) THEN [sent EXCEPT !.outcome = "ok"]
     ELSE [sent EXCEPT !.outcome = "error"]

(* One pass of fetchWithRetry's loop. *)
fetchWithRetry(r, attempt, res) ==
  LET sent == [r EXCEPT !.reqs = @ + 1, !.last = Some(res),
                        !.locks = IF IsLockResponse(res) THEN @ + 1 ELSE @]
  IN IF ResOk(res) THEN [sent EXCEPT !.outcome = "ok"]
     ELSE IF IsLockResponse(res) /\ attempt < RESOURCE_LOCK_MAX_RETRIES_fetchWithRetry
       THEN [sent EXCEPT !.sleeps = Append(@, RESOURCE_LOCK_BASE_DELAY_MS * (attempt + 1))]
       ELSE [sent EXCEPT !.outcome = "error"]

(* The request method a public method of the client calls. *)
ClientPass(c, res) ==
  IF c.variant = "fetchWithRetry" THEN fetchWithRetry(c, c.attempt, res)
  ELSE IF c.method \in VoidMethods THEN requestVoid(c, c.attempt, res)
  ELSE request(c, res)

(* A public method of the client is called. *)
ClientCall(m) ==
  /\ client.state = "idle"
  /\ caller[ClientCaller].state = "idle"
  /\ client' = [NewCall(client.variant, m) EXCEPT !.state = "acquire", !.outcome = "pending"]
  /\ UNCHANGED <<limiterVars, pipelineVars, now, functionVars, adapterVars>>

(* await godaddyRateLimiter.acquire() *)
ClientAcquire ==
  /\ client.state = "acquire"
  /\ caller[ClientCaller].state = "idle"
  /\ LET r == acquire(timestamps, config)
     IN /\ Admit(ClientCaller, r)
        /\ client' = [client EXCEPT !.acquires = @ + 1,
                                    !.state = IF r.admitted THEN "fetch" ELSE "limited"]
        /\ UNCHANGED adapterVars

(* The limiter's sleep is over: return this.acquire(). *)
ClientWake ==
  /\ client.state = "limited"
  /\ caller[ClientCaller].state = "sleeping"
  /\ caller[ClientCaller].waitMs = 0
  /\ LET r == acquire(timestamps, config)
     IN /\ Admit(ClientCaller, r)
        /\ client' = [client EXCEPT !.state = IF r.admitted THEN "fetch" ELSE "limited"]
        /\ UNCHANGED adapterVars

(* await fetch(...) and what the method does with the response. *)
ClientFetch(res) ==
  /\ client.state = "fetch"
  /\ LET r == ClientPass(client, res)
     IN client' = IF r.outcome = "pending"
                    THEN [r EXCEPT !.state = "sleep"]
                    ELSE [r EXCEPT !.state = "idle"]
  /\ UNCHANGED <<limiterVars, pipelineVars, now, functionVars, adapterVars>>

(* The backoff sleep is over: continue with the next attempt. *)
ClientBackoffOver ==
  /\ client.state = "sleep"
  /\ client' = [client EXCEPT !.attempt = @ + 1, !.state = "acquire"]
  /\ UNCHANGED <<limiterVars, pipelineVars, now, functionVars, adapterVars>>

InitClient ==
  /\ NoBatch
  /\ PreflightIdle
  /\ config \in [requests : 1..MaxRequests, windowMs : {WindowMs}]
  /\ timestamps = <<>>
  /\ caller = [c \in Callers |-> Idle]
  /\ admissions = <<>>
  /\ \E v \in ClientVariants : client = NewCall(v, "none")

NextClient ==
  \/ \E m \in ReadMethods \cup VoidMethods : ClientCall(m)
  \/ ClientAcquire
  \/ ClientWake
  \/ \E res \in {Ok} \cup GoDaddyErrors : ClientFetch(res)
  \/ ClientBackoffOver
  \/ Tick

SpecClient == InitClient /\ [][NextClient]_vars

(***************************************************************************)
(* Properties of the GoDaddyClient.                                        *)
(***************************************************************************)

(* C11: a non-mutating call (listDomains, getDomainDetail, getDnsRecords,  *)
(* the auth-code read) sends exactly one HTTP request and never sleeps in  *)
(* a backoff, even when the answer is the 422 resource-lock response; it   *)
(* performs one rate-limiter acquire before its request.                   *)
ReadCallsSendOneRequest ==
  client.method \in ReadMethods =>
    /\ client.reqs <= 1
    /\ client.sleeps = <<>>
    /\ client.acquires <= 1
    /\ client.reqs <= client.acquires
    /\ client.outcome \in {"ok", "error"} => client.reqs = 1 /\ client.acquires = 1

(* The same, for the build where only requestVoid retries. *)
ReadCallsSendOneRequestUnlessFetchWithRetry ==
  client.variant = "requestVoid" => ReadCallsSendOneRequest

(* A read call answered with the lock response has ended in error. *)
ReadCallLocked ==
  /\ client.method \in ReadMethods
  /\ client.outcome = "error"
  /\ client.locks = 1

(***************************************************************************)
(* The store under a sequence of createMigration and updateDomainStatus    *)
(* calls.                                                                  *)
(***************************************************************************)
StoreCreate(doms) ==
  /\ Cardinality(DOMAIN migrations) < MaxMigrations
  /\ migrations' = createMigration(migrations, doms)
  /\ activeMigrationId' = NewMigrationId(migrations)
  /\ UNCHANGED <<batchVars, taskVars, histVars, serviceVars>>

StoreUpdate(id, d, status) ==
  /\ id \in DOMAIN migrations
  /\ d \in DOMAIN migrations[id].domains
  /\ migrations' = updateDomainStatus(migrations, id, d, status, NoExtra)
  /\ UNCHANGED <<activeMigrationId, batchVars, taskVars, histVars, serviceVars>>

NextStore ==
  \/ \E doms \in SUBSET (1..NumDomains) \ {{}} : StoreCreate(doms)
  \/ \E id \in 1..MaxMigrations, d \in 1..NumDomains, status \in {"dns_migrated", "failed"} :
       StoreUpdate(id, d, status)

SpecStore == Init /\ [][NextStore]_vars

(***************************************************************************)
(* Properties of the store.                                                *)
(***************************************************************************)
MostRecentIsActive ==
  IF DOMAIN migrations = {} THEN activeMigrationId = 0
  ELSE /\ activeMigrationId \in DOMAIN migrations
       /\ \A id \in DOMAIN migrations : id <= activeMigrationId

RunAdded ==
  DOMAIN migrations' # DOMAIN migrations =>
    \E id \in DOMAIN migrations' \ DOMAIN migrations :
      /\ DOMAIN migrations' = DOMAIN migrations \cup {id}
      /\ activeMigrationId' = id
      /\ DOMAIN migrations'[id].domains # {}
      /\ \A d \in DOMAIN migrations'[id].domains :
           /\ migrations'[id].domains[d].status = "pending"
           /\ migrations'[id].domains[d].dnsRecordsBackup = <<>>
      /\ \A old \in DOMAIN migrations :
           /\ migrations'[old] = migrations[old]
           /\ getMigration(migrations', old) = Some(migrations[old])

(* C18: createMigration adds a run under a fresh id, every domain of it    *)
(* pending with an empty backup, and makes it the active run; after any    *)
(* sequence of createMigration calls the active run is the most recent one *)
(* and every earlier run is still there under its id, unchanged.           *)
CreateMigrationAddsActiveRun == []MostRecentIsActive /\ [][RunAdded]_vars

(* Three runs; an earlier one has moved on and is not the active one. *)
EarlierRunKept ==
  /\ Cardinality(DOMAIN migrations) = 3
  /\ activeMigrationId = 3
  /\ \E d \in DOMAIN migrations[1].domains : migrations[1].domains[d].status = "dns_migrated"
  /\ \A d \in DOMAIN migrations[3].domains : migrations[3].domains[d].status = "pending"

(***************************************************************************)
(* preflightCheck on the domains listDomains may return.                   *)
(***************************************************************************)
DomainNames ==
  {<<"example", "com">>, <<"example", "co", "uk">>, <<"example", "de">>,
   <<"www", "example", "de">>, <<"localhost">>}

Ages == (0 - HoursPerDay)..(MaxAgeDays * HoursPerDay)

GoDaddyDomains ==
  [domain : DomainNames, status : {"ACTIVE", "EXPIRED"},
   createdAt : {None} \cup {Some(age) : age \in Ages}, transferProtected : BOOLEAN]

InitPreflight ==
  /\ NoBatch /\ LimiterIdle /\ ClientIdle /\ AdaptersIdle
  /\ preflight \in [domain : {Some(domain) : domain \in GoDaddyDomains}, result : {None}]
  /\ execution = NoExecution
  /\ dns = [records |-> None, result |-> None]
  /\ validation = [domain |-> None, result |-> None]

PreflightCheck ==
  /\ preflight.result = None
  /\ preflight' = [preflight EXCEPT !.result = Some(preflightCheck(preflight.domain[1]))]
  /\ UNCHANGED <<pipelineVars, now, limiterVars, client, dns, validation, execution, adapterVars>>

NextPreflight == PreflightCheck

SpecPreflight == InitPreflight /\ [][NextPreflight]_vars

(***************************************************************************)
(* Properties of preflightCheck.                                           *)
(***************************************************************************)
Checked == preflight.result # None

Rules == <<"status", "age", "tld", "protection">>

Fails(rule, domain) ==
  CASE rule = "status" -> domain.status # "ACTIVE"
    [] rule = "age" ->
         domain.createdAt # None /\ domain.createdAt[1] < MinAgeDays * HoursPerDay
    [] rule = "tld" -> Tail(domain.domain) \in UNSUPPORTED_TLDS
    [] rule = "protection" -> domain.transferProtected

FailingRules(domain) == SelectSeq(Rules, LAMBDA rule : Fails(rule, domain))

ReasonsPerFailingRule ==
  Checked =>
    LET domain == preflight.domain[1]
        result == preflight.result[1]
    IN /\ result.eligible <=> result.reasons = <<>>
       /\ [i \in 1..Len(result.reasons) |-> result.reasons[i].rule] = FailingRules(domain)
       /\ result.domain = domain.domain

PreflightIsPure ==
  preflight' # preflight => UNCHANGED <<pipelineVars, limiterVars, client>>

(* C19: preflightCheck evaluates its four rules independently: eligible is *)
(* true exactly when the reasons list is empty, there is one reason for    *)
(* each failing rule (status not ACTIVE, age under 60 days, suffix in the  *)
(* unsupported list, transfer protection set) in that order, and the check *)
(* makes no provider call and no store write.                              *)
PreflightReasonsInOrder == []ReasonsPerFailingRule /\ [][PreflightIsPure]_vars

(* A domain that fails all four rules has four reasons. *)
AllFourRulesFail ==
  /\ Checked
  /\ Len(preflight.result[1].reasons) = 4
  /\ ~preflight.result[1].eligible

AgeReasons(result) == SelectSeq(result.reasons, LAMBDA reason : reason.rule = "age")

(* C20: a domain under 60 days old is not eligible and its reason states   *)
(* the days remaining as ceil(60 - age in days), the least whole number of *)
(* days that brings the age to 60 (45 days old: 15); a domain aged 60 days *)
(* or more gets no reason from the age rule.                               *)
DaysRemainingIsCeiling ==
  Checked /\ preflight.domain[1].createdAt # None =>
    LET age == preflight.domain[1].createdAt[1]
        result == preflight.result[1]
        missing == MinAgeDays * HoursPerDay - age
    IN IF age < MinAgeDays * HoursPerDay
         THEN /\ ~result.eligible
              /\ Len(AgeReasons(result)) = 1
              /\ LET n == AgeReasons(result)[1].daysRemaining
                 IN /\ n * HoursPerDay >= missing
                    /\ (n - 1) * HoursPerDay < missing
                    /\ age = 45 * HoursPerDay => n = 15
         ELSE AgeReasons(result) = <<>>

(* 45 days and one hour old: 15 days remain, the age is the only reason. *)
FortyFiveDaysAndAnHour ==
  /\ Checked
  /\ preflight.domain[1].createdAt = Some(45 * HoursPerDay + 1)
  /\ Len(preflight.result[1].reasons) = 1
  /\ preflight.result[1].reasons[1].rule = "age"
  /\ preflight.result[1].reasons[1].daysRemaining = 15
  /\ preflight.result[1].reasons[1].daysOld = 45

(***************************************************************************)
(* mapGoDaddyToCloudflare on its own: the record sets it is given and what *)
(* it returns for them.                                                    *)
(***************************************************************************)
MaxDnsRecords == 2
MaxCaaAtoms == 5

ExampleDomain == <<"example", "com">>

GoDaddyRecord(type, name, data, ttl) ==
  [type |-> type, name |-> name, data |-> data, ttl |-> ttl,
   priority |-> None, weight |-> None, port |-> None, service |-> None,
   protocol |-> None]

GoDaddyTypes == {"A", "AAAA", "CNAME", "MX", "TXT", "SRV", "CAA", "NS", "SOA", "UNKNOWN"}

GoDaddyNames == {Apex, <<"www">>}

LetsEncrypt == <<"0", " ", "issue", " ", "letsencrypt.org">>

(* Every type under both names, and the records the filters single out. *)
GoDaddyRecords ==
  {GoDaddyRecord(type, name, <<"192.0.2.1">>, 600) :
     type \in GoDaddyTypes \ {"CAA"}, name \in GoDaddyNames}
  \cup {GoDaddyRecord("CAA", name, data, 600) :
          name \in GoDaddyNames, data \in {LetsEncrypt, <<"malformed">>}}
  \cup {GoDaddyRecord("A", Apex, <<"Parked">>, 600),
        GoDaddyRecord("A", <<"www">>, <<"192.0.2.1">>, 60),
        GoDaddyRecord("CNAME", <<"www">>, <<"shop", ".secureserver.net">>, 600),
        GoDaddyRecord("CNAME", <<"www">>, <<"ns", ".domaincontrol.com">>, 600),
        GoDaddyRecord("CNAME", <<"www">>, Apex, 600),
        [GoDaddyRecord("SRV", <<"@">>, <<"sip.example.net">>, 600)
           EXCEPT !.service = Some("_sip"), !.protocol = Some("_tcp"),
                  !.priority = Some(1), !.port = Some(1)]}

CaaAtoms == {"0", "1", " ", "issue", "letsencrypt.org"}

CaaDatas == SeqsUpTo(CaaAtoms, MaxCaaAtoms)

CaaNeighbours ==
  {GoDaddyRecord("A", <<"www">>, <<"192.0.2.1">>, 600),
   GoDaddyRecord("NS", <<"sub">>, <<"ns1.example.net">>, 600)}

CaaRecordSets ==
  LET caa(data) == GoDaddyRecord("CAA", Apex, data, 600)
  IN {<<caa(data)>> : data \in CaaDatas}
     \cup {<<caa(data), other>> : data \in CaaDatas, other \in CaaNeighbours}
     \cup {<<other, caa(data)>> : data \in CaaDatas, other \in CaaNeighbours}

(* Two A records, a CNAME to secureserver.net, the apex NS, the SOA and *)
(* the parking A record.                                               *)
MixedRecordSet ==
  <<GoDaddyRecord("A", Apex, <<"192.0.2.1">>, 600),
    GoDaddyRecord("CNAME", <<"www">>, <<"parked", ".secureserver.net">>, 600),
    GoDaddyRecord("NS", Apex, <<"ns1.godaddy.com">>, 600),
    GoDaddyRecord("A", <<"www">>, <<"192.0.2.1">>, 600),
    GoDaddyRecord("SOA", Apex, <<"ns1.godaddy.com">>, 600),
    GoDaddyRecord("A", Apex, <<"Parked">>, 600)>>

InitDns ==
  /\ NoBatch /\ LimiterIdle /\ ClientIdle /\ AdaptersIdle
  /\ preflight = [domain |-> None, result |-> None]
  /\ execution = NoExecution
  /\ validation = [domain |-> None, result |-> None]
  /\ dns \in [records : {Some(records) :
                           records \in SeqsUpTo(GoDaddyRecords, MaxDnsRecords)
                                       \cup CaaRecordSets \cup {MixedRecordSet}},
              result : {None}]

MapRecords ==
  /\ dns.result = None
  /\ \E proxied \in BOOLEAN :
       dns' = [dns EXCEPT !.result =
                 Some(mapGoDaddyToCloudflare(dns.records[1], ExampleDomain, proxied))]
  /\ UNCHANGED <<pipelineVars, now, limiterVars, client, preflight, validation, execution, adapterVars>>

NextDns == MapRecords

SpecDns == InitDns /\ [][NextDns]_vars

Mapped == dns.result # None

CloudflareTypes == {"A", "AAAA", "CNAME", "MX", "TXT", "SRV", "CAA", "NS"}

(* C21: mapGoDaddyToCloudflare never emits an SOA record, never emits an  *)
(* NS record whose name is the bare domain, and every record it emits has *)
(* one of the types A, AAAA, CNAME, MX, TXT, SRV, CAA, NS.                 *)
MappedRecordsAreSupported ==
  Mapped =>
    \A i \in 1..Len(dns.result[1]) :
      LET cfRecord == dns.result[1][i]
      IN /\ cfRecord.type # "SOA"
         /\ ~(cfRecord.type = "NS" /\ cfRecord.name = ExampleDomain)
         /\ cfRecord.type \in CloudflareTypes

(* An apex NS record was given next to a subdomain's NS record, and only *)
(* the subdomain's came out.                                             *)
ApexNsAndSoaDropped ==
  /\ Mapped
  /\ \E i \in 1..Len(dns.records[1]) :
       dns.records[1][i].type = "NS" /\ dns.records[1][i].name = Apex
  /\ \E i \in 1..Len(dns.records[1]) :
       dns.records[1][i].type = "NS" /\ dns.records[1][i].name = <<"www">>
  /\ Len(dns.result[1]) = 1
  /\ dns.result[1][1].type = "NS"
  /\ dns.result[1][1].name = <<"www">> \o ExampleDomain

(* An SOA record and a record of an unknown type were given: nothing came out. *)
SoaAndUnknownDropped ==
  /\ Mapped
  /\ {dns.records[1][i].type : i \in 1..Len(dns.records[1])} = {"SOA", "UNKNOWN"}
  /\ dns.result[1] = <<>>

IsCaa(record) == record.type = "CAA"

(* The ways to read data as digits, whitespace, a run without whitespace, *)
(* whitespace and a non-empty rest.                                       *)
FlagsTagValue(data) ==
  {[flags |-> parseInt(SubSeq(data, 1, x[1])),
    tag |-> SubSeq(data, x[2] + 1, x[3]),
    value |-> SubSeq(data, x[4] + 1, Len(data))] : x \in CaaSplits(data)}

WellFormedCaa(record) == IsCaa(record) /\ FlagsTagValue(record.data) # {}

MalformedCaa(record) == IsCaa(record) /\ FlagsTagValue(record.data) = {}

CaaParsed ==
  Mapped =>
    LET given == SelectSeq(dns.records[1], WellFormedCaa)
        emitted == SelectSeq(dns.result[1], IsCaa)
    IN /\ Len(emitted) = Len(given)
       /\ \A i \in 1..Len(given) :
            /\ emitted[i].data \in FlagsTagValue(given[i].data)
            /\ emitted[i].content = given[i].data

MalformedCaaDroppedAlone ==
  Mapped =>
    \A proxied \in BOOLEAN :
      LET others == SelectSeq(dns.records[1], LAMBDA record : ~MalformedCaa(record))
          all == mapGoDaddyToCloudflare(dns.records[1], ExampleDomain, proxied)
      IN all = mapGoDaddyToCloudflare(others, ExampleDomain, proxied)

(* C22: a CAA record whose data reads 'flags tag value' is emitted with    *)
(* flags, tag and value equal to the three parts; a CAA record whose data  *)
(* does not read so is dropped, and dropping it changes nothing about      *)
(* which other records are emitted.                                        *)
CaaParsedOrDroppedAlone == CaaParsed /\ MalformedCaaDroppedAlone

(* '0 issue letsencrypt.org' came out as flags 0, tag issue, value *)
(* letsencrypt.org, next to a malformed CAA record that was dropped. *)
LetsEncryptCaaParsed ==
  /\ Mapped
  /\ Len(dns.records[1]) = 2
  /\ dns.records[1][1].data = <<"malformed">> /\ IsCaa(dns.records[1][1])
  /\ dns.records[1][2].data = LetsEncrypt /\ IsCaa(dns.records[1][2])
  /\ Len(dns.result[1]) = 1
  /\ dns.result[1][1].data =
       [flags |-> 0, tag |-> <<"issue">>, value |-> <<"letsencrypt.org">>]

(***************************************************************************)
(* assertValidDomain.  A name is a sequence of runs [char, count], count   *)
(* copies of one character, so that names of 253 and more characters stay  *)
(* small values.                                                           *)
(***************************************************************************)
MAX_DOMAIN_LENGTH == 253
MAX_LABEL_LENGTH == 63

MaxShortName == 4
MaxLabels == 4

Letters == {"a", "Z"}
Numerals == {"1"}
OtherChars == {"/", " ", "!"}
Chars == Letters \cup Numerals \cup {"-", "."} \cup OtherChars

Repeat(char, count) == [char |-> char, count |-> count]

RECURSIVE Length(_)
Length(name) == IF name = <<>> THEN 0 ELSE Head(name).count + Length(Tail(name))

(* name.split('.'): the labels, each a sequence of runs. *)
RECURSIVE Split(_)
Split(name) ==
  IF name = <<>> THEN << <<>> >>
  ELSE LET rest == Split(Tail(name))
       IN IF Head(name).char = "."
          THEN [i \in 1..Head(name).count |-> <<>>] \o rest
          ELSE << <<Head(name)>> \o Head(rest) >> \o Tail(rest)

(* DOMAIN_RE as the automaton it denotes: "label" before the first character *)
(* of a label, "alnum" after a letter or digit, "hyphen" after a hyphen inside *)
(* a label, "dead" once nothing can match.                                 *)
ReStep(state, char) ==
  CASE state = "dead" -> "dead"
    [] char \in Letters \cup Numerals -> "alnum"
    [] char = "-" -> IF state \in {"alnum", "hyphen"} THEN "hyphen" ELSE "dead"
    [] char = "." -> IF state = "alnum" THEN "label" ELSE "dead"
    [] OTHER -> "dead"

(* A run of one character: its third and later copies leave the automaton *)
(* where the second copy left it.                                        *)
StepRun(state, char, count) ==
  CASE count = 0 -> state
    [] count = 1 -> ReStep(state, char)
    [] OTHER -> ReStep(ReStep(state, char), char)

RECURSIVE StepName(_, _)
StepName(state, name) ==
  IF name = <<>> THEN state
  ELSE StepName(StepRun(state, Head(name).char, Head(name).count), Tail(name))

DOMAIN_RE(name) == StepName("label", name) = "alnum"

ExceedsOrMeets(length, limit) == length >= limit

Exceeds(length, limit) == length > limit

(* "ok" when it returns, the message's beginning when it throws. *)
assertValidDomain(domain) ==
  IF Length(domain) = 0 \/ Exceeds(Length(domain), MAX_DOMAIN_LENGTH)
  THEN "Invalid domain name"
  ELSE IF \E i \in 1..Len(Split(domain)) :
            \/ Length(Split(domain)[i]) = 0
            \/ Exceeds(Length(Split(domain)[i]), MAX_LABEL_LENGTH)
       THEN "Invalid domain name"
       ELSE IF ~DOMAIN_RE(domain) THEN "Invalid domain name" ELSE "ok"

(* Names of a few characters over every kind of character. *)
ShortNames ==
  {[i \in 1..Len(chars) |-> Repeat(chars[i], 1)] : chars \in SeqsUpTo(Chars, MaxShortName)}

LabelLengths ==
  {1, MAX_LABEL_LENGTH - 2, MAX_LABEL_LENGTH - 1, MAX_LABEL_LENGTH, MAX_LABEL_LENGTH + 1,
   MAX_DOMAIN_LENGTH - 1, MAX_DOMAIN_LENGTH, MAX_DOMAIN_LENGTH + 1}

RECURSIVE Join(_)
Join(lengths) ==
  IF Len(lengths) = 1 THEN <<Repeat("a", lengths[1])>>
  ELSE <<Repeat("a", lengths[1]), Repeat(".", 1)>> \o Join(Tail(lengths))

(* Names of a few labels of letters, of the lengths around the two limits. *)
LongNames == {Join(lengths) : lengths \in SeqsUpTo(LabelLengths, MaxLabels) \ {<<>>}}

InitValidation ==
  /\ NoBatch /\ LimiterIdle /\ ClientIdle /\ AdaptersIdle
  /\ preflight = [domain |-> None, result |-> None]
  /\ execution = NoExecution
  /\ dns = [records |-> None, result |-> None]
  /\ validation \in [domain : {Some(name) : name \in ShortNames \cup LongNames},
                     result : {None}]

AssertValidDomain ==
  /\ validation.result = None
  /\ validation' = [validation EXCEPT !.result = Some(assertValidDomain(validation.domain[1]))]
  /\ UNCHANGED <<pipelineVars, now, limiterVars, client, preflight, dns, execution, adapterVars>>

NextValidation == AssertValidDomain

SpecValidation == InitValidation /\ [][NextValidation]_vars

Validated == validation.result # None

(* The characters of a name, one by one. *)
RECURSIVE Characters(_)
Characters(name) ==
  IF name = <<>> THEN <<>>
  ELSE [i \in 1..Head(name).count |-> Head(name).char] \o Characters(Tail(name))

(* The labels of a sequence of characters: the stretches between its dots. *)
RECURSIVE LabelsOf(_)
LabelsOf(chars) ==
  IF \A i \in 1..Len(chars) : chars[i] # "." THEN <<chars>>
  ELSE LET dot == CHOOSE i \in 1..Len(chars) :
                    chars[i] = "." /\ \A j \in 1..(i - 1) : chars[j] # "."
       IN <<SubSeq(chars, 1, dot - 1)>> \o LabelsOf(SubSeq(chars, dot + 1, Len(chars)))

LettersDigitsInnerHyphens(label) ==
  /\ \A i \in 1..Len(label) : label[i] \in Letters \cup Numerals \cup {"-"}
  /\ label # <<>> => label[1] # "-" /\ label[Len(label)] # "-"

Invalid(chars) ==
  \/ chars = <<>>
  \/ Len(chars) > MAX_DOMAIN_LENGTH
  \/ \E i \in 1..Len(LabelsOf(chars)) :
       LET label == LabelsOf(chars)[i]
       IN \/ label = <<>>
          \/ Len(label) > MAX_LABEL_LENGTH
          \/ ~LettersDigitsInnerHyphens(label)

(* C23: assertValidDomain throws 'Invalid domain name' exactly for the names *)
(* that are empty, longer than 253 characters, or have a label that is empty, *)
(* longer than 63 characters or not made of letters, digits and inner hyphens; *)
(* it accepts every other name, a single label and a label of exactly 63    *)
(* characters included.                                                     *)
ThrowsExactlyForInvalidNames ==
  Validated =>
    (validation.result[1] = "Invalid domain name"
       <=> Invalid(Characters(validation.domain[1])))

(* A name whose first label has exactly 63 characters was accepted. *)
LabelOfSixtyThreeAccepted ==
  /\ Validated
  /\ validation.domain[1] = <<Repeat("a", 63), Repeat(".", 1), Repeat("a", 1)>>
  /\ validation.result[1] = "ok"

(* A name of 254 characters whose labels all have at most 63 was refused. *)
TwoHundredFiftyFourRefused ==
  /\ Validated
  /\ validation.domain[1] = Join(<<63, 63, 63, 62>>)
  /\ validation.result[1] = "Invalid domain name"

(***************************************************************************)
(* The request methods of both adapters as concurrent callers of their     *)
(* provider's limiter.  fetch() is called in the turn in which acquire()   *)
(* returns, so a request is sent at the time of its admission; a backoff   *)
(* sleep may end at any time.                                              *)
(***************************************************************************)
Providers == {"godaddy", "cloudflare"}

RequestMethods(provider) ==
  IF provider = "godaddy" THEN {"request", "requestVoid", "requestText", "fetchWithRetry"}
  ELSE {"request"}

(* The last attempt index on which a lock response is retried. *)
RetryLimit(method) ==
  CASE method = "requestVoid" -> RESOURCE_LOCK_MAX_RETRIES
    [] method = "fetchWithRetry" -> RESOURCE_LOCK_MAX_RETRIES_fetchWithRetry
    [] OTHER -> 0

Responses == {Ok, [status |-> 422, body |-> LockBody], [status |-> 500, body |-> "Internal"]}

AcquiresOnFirstAttempt(attempt) == attempt = 0

(* await limiter.acquire() is the first statement of request and of every *)
(* pass of the retry loops.                                               *)
AcquiresOnAttempt(attempt) == TRUE

(* One attempt of the call: acquire(), then fetch(). *)
AttemptOf(c, call, method, attempt) ==
  IF AcquiresOnAttempt(attempt)
    THEN LET r == acquire(timestamps, config)
         IN /\ Admit(c, r)
            /\ adapter' = [adapter EXCEPT ![c] =
                             [call EXCEPT !.method = method, !.attempt = attempt,
                                !.state = IF r.admitted THEN "fetch" ELSE "limited"]]
            /\ sentAt' = IF r.admitted THEN Append(sentAt, 0) ELSE sentAt
    ELSE /\ adapter' = [adapter EXCEPT ![c] =
                          [call EXCEPT !.method = method, !.attempt = attempt,
                                       !.state = "fetch"]]
         /\ sentAt' = Append(sentAt, 0)
         /\ UNCHANGED <<limiterVars, pipelineVars, now, functionVars>>

Attempt(c, method, attempt) == AttemptOf(c, adapter[c], method, attempt)

(* A request method is called. *)
AdapterCall(c, method) ==
  /\ adapter[c].state = "idle"
  /\ method \in RequestMethods(adapter[c].provider)
  /\ Attempt(c, method, 0)
  /\ UNCHANGED client

(* The limiter's sleep is over: acquire() tries again and, admitted, returns. *)
AdapterWake(c) ==
  /\ adapter[c].state = "limited"
  /\ caller[c].waitMs = 0
  /\ Attempt(c, adapter[c].method, adapter[c].attempt)
  /\ UNCHANGED client

(* The response: return, throw, or sleep before the next attempt. *)
AdapterResponse(c, res) ==
  /\ adapter[c].state = "fetch"
  /\ adapter' = [adapter EXCEPT ![c].state =
                   IF /\ ~ResOk(res)
                      /\ IsLockResponse(res)
                      /\ adapter[c].attempt < RetryLimit(adapter[c].method)
                   THEN "backoff" ELSE "idle"]
  /\ UNCHANGED <<limiterVars, pipelineVars, now, client, functionVars, sentAt>>

(* The backoff sleep is over: the loop's next pass. *)
AdapterBackoffOver(c) ==
  /\ adapter[c].state = "backoff"
  /\ Attempt(c, adapter[c].method, adapter[c].attempt + 1)
  /\ UNCHANGED client

(* The clock advances. *)
AdapterTick ==
  /\ timestamps' = Older(timestamps, config.windowMs)
  /\ admissions' = InWindow(Older(admissions, config.windowMs), config)
  /\ sentAt' = InWindow(Older(sentAt, config.windowMs), config)
  /\ caller' = [c \in Callers |-> [caller[c] EXCEPT !.waitMs = MaxOf(0, @ - TickMs)]]
  /\ UNCHANGED <<config, pipelineVars, now, client, functionVars, adapter>>

NumPipelines == 2

Pipelines == 1..NumPipelines

InitAdapters ==
  /\ NoBatch /\ ClientIdle
  /\ preflight = [domain |-> None, result |-> None]
  /\ execution = NoExecution
  /\ dns = [records |-> None, result |-> None]
  /\ validation = [domain |-> None, result |-> None]
  /\ config \in [requests : 1..MaxRequests, windowMs : {WindowMs}]
  /\ timestamps = <<>>
  /\ caller = [c \in Callers |-> Idle]
  /\ admissions = <<>>
  /\ \E provider \in Providers :
       adapter = [c \in Callers |-> [NoRequest EXCEPT !.provider = provider]]
  /\ sentAt = <<>>

NextAdapters ==
  \/ \E c \in Pipelines, method \in {"request", "requestVoid", "requestText", "fetchWithRetry"} :
       AdapterCall(c, method)
  \/ \E c \in Pipelines : AdapterWake(c)
  \/ \E c \in Pipelines, res \in Responses : AdapterResponse(c, res)
  \/ \E c \in Pipelines : AdapterBackoffOver(c)
  \/ AdapterTick

SpecAdapters == InitAdapters /\ [][NextAdapters]_vars

(* C25: every HTTP request attempt of either adapter, each lock-retry      *)
(* attempt included, is preceded by its own acquire() on the provider's    *)
(* limiter, so the requests sent to one provider inside any trailing       *)
(* window are never more than the limiter's budget.                        *)
EveryRequestAcquires ==
  /\ sentAt = admissions
  /\ Len(sentAt) <= config.requests

(* A lock-retry attempt waits in acquire() while the window is full of the *)
(* other pipeline's requests.                                              *)
RetryWaitsForBudget ==
  \E c \in Pipelines :
    /\ adapter[c].attempt > 0
    /\ adapter[c].state = "limited"
    /\ Len(sentAt) = config.requests

(***************************************************************************)
(* updateDomainStatus with the extras its callers pass, under a clock.     *)
(***************************************************************************)
MaxRuns == 2
MaxClock == 1

ExampleZone == [id |-> "zone-1", name_servers |-> <<"ns1">>]

(* (status, extra) as transferDomain and saveDnsBackup pass them. *)
StatusWrites ==
  {BackupWrite(<<SourceRecord("A")>>), ZoneWrites(ExampleZone), <<"dns_migrated", NoExtra>>}

UpdateCreate(doms) ==
  /\ Cardinality(DOMAIN migrations) < MaxRuns
  /\ migrations' = createMigration(migrations, doms)
  /\ activeMigrationId' = NewMigrationId(migrations)
  /\ UNCHANGED <<batchVars, taskVars, histVars, serviceVars>>

(* A missing run or domain makes updateDomainStatus throw before it writes. *)
UpdateStatus(id, d, w) ==
  /\ id \in DOMAIN migrations
  /\ d \in DOMAIN migrations[id].domains
  /\ migrations' = updateDomainStatus(migrations, id, d, w[1], w[2])
  /\ UNCHANGED <<activeMigrationId, batchVars, taskVars, histVars, serviceVars>>

ClockTick ==
  /\ now < MaxClock
  /\ now' = now + 1
  /\ UNCHANGED <<pipelineVars, limiterVars, client, functionVars, adapterVars>>

NextUpdate ==
  \/ \E doms \in SUBSET (1..NumDomains) \ {{}} : UpdateCreate(doms)
  \/ \E id \in 1..MaxRuns, d \in 1..NumDomains, w \in StatusWrites : UpdateStatus(id, d, w)
  \/ ClockTick

SpecUpdate == Init /\ [][NextUpdate]_vars

(* The record of d in run id is what the call (status, extra) makes of it. *)
Updated(id, d, w) ==
  LET old == migrations[id].domains[d]
      new == migrations'[id].domains[d]
  IN /\ new.status = w[1]
     /\ new.lastUpdated = now
     /\ \A f \in DOMAIN w[2] : new[f] = w[2][f]
     /\ DOMAIN new = DOMAIN old \cup DOMAIN w[2]
     /\ \A f \in DOMAIN old \ (DOMAIN w[2] \cup {"status", "lastUpdated"}) :
          new[f] = old[f]

OthersUntouched(id, d) ==
  /\ activeMigrationId' = activeMigrationId
  /\ DOMAIN migrations' = DOMAIN migrations
  /\ \A i \in DOMAIN migrations :
       /\ DOMAIN migrations'[i].domains = DOMAIN migrations[i].domains
       /\ \A e \in DOMAIN migrations[i].domains :
            <<i, e>> # <<id, d>> => migrations'[i].domains[e] = migrations[i].domains[e]

(* C26: updateDomainStatus sets the domain's status, overwrites exactly    *)
(* the fields named in extra, refreshes lastUpdated, keeps every other     *)
(* field of the domain, and leaves the run's other domains, the other runs *)
(* and the active-run pointer as they were, in one step.                   *)
UpdateTouchesOneDomain ==
  [][migrations' # migrations /\ DOMAIN migrations' = DOMAIN migrations =>
       \E id \in DOMAIN migrations :
         \E d \in DOMAIN migrations[id].domains :
           \E w \in StatusWrites : Updated(id, d, w) /\ OthersUntouched(id, d)]_vars

(* A domain was backed up, given its zone and moved to dns_migrated at    *)
(* clock 1; the zone and the backup are still in its record, the run's    *)
(* other domain and the other run are as they were created.               *)
MigratedKeepingBackupAndZone ==
  /\ DOMAIN migrations = {1, 2}
  /\ activeMigrationId = 2
  /\ DOMAIN migrations[1].domains = {1, 2}
  /\ migrations[1].domains[1].status = "dns_migrated"
  /\ migrations[1].domains[1].lastUpdated = 1
  /\ migrations[1].domains[1].cloudflareZoneId = "zone-1"
  /\ migrations[1].domains[1].dnsRecordsBackup # <<>>
  /\ migrations[1].domains[2].status = "pending"
  /\ migrations[1].domains[2].lastUpdated = 0
  /\ migrations[2].domains[1].status = "pending"

(***************************************************************************)
(* The zone wait: CloudflareClient.waitForZoneActive.                      *)
(***************************************************************************)
(* Every request gets its response and every timer fires: the event loop   *)
(* resumes the pipeline that awaits it, and Listr's run() resolves once    *)
(* every task has ended.                                                   *)
SpecLive ==
  /\ Spec
  /\ \A d \in 1..NumDomains : WF_vars(Step(d))
  /\ WF_vars(BatchEnd)

ZoneTimedOut(d) ==
  /\ failure[d] # None
  /\ failure[d][1].at = "waitZone"
  /\ failure[d][1].err = ZoneTimeoutError

(* While waiting, the time spent is a whole number of poll intervals below *)
(* the timeout; the timeout error carries 408 and is raised only when the  *)
(* sleep after the last poll reached the timeout.                          *)
ZoneWaitWithinTimeout ==
  \A d \in Domains :
    /\ pc[d] = "waitZone" =>
         /\ task[d].elapsed < timeoutMs
         /\ task[d].elapsed % pollIntervalMs = 0
    /\ ZoneTimedOut(d) =>
         /\ failure[d][1].err.statusCode = 408
         /\ AfterSleep(task[d].elapsed) >= timeoutMs
         /\ req[d].last = Some(ZoneStatus(FALSE))

(* The wait returns only from a poll that read the zone active, and a poll *)
(* that read anything else is followed by one interval of sleep.           *)
ZoneReturnedWhenActive ==
  \A d \in Domains :
    /\ pc[d] = "waitZone" /\ pc'[d] = AfterZoneActive =>
         req'[d].last = Some(ZoneStatus(TRUE))
    /\ pc[d] = "waitZone" /\ pc'[d] = "waitZone" =>
         /\ req'[d].last = Some(ZoneStatus(FALSE))
         /\ task'[d].elapsed = task[d].elapsed + pollIntervalMs

(* C31: waitForZoneActive returns a zone only if a poll observed it        *)
(* active; it polls at a fixed interval, starts no poll once the timeout   *)
(* has elapsed and then fails with the 408 timeout error; the wait always  *)
(* ends, so a zone that never becomes active ends in that error.           *)
ZoneWaitEnds ==
  /\ []ZoneWaitWithinTimeout
  /\ [][ZoneReturnedWhenActive]_vars
  /\ \A d \in 1..NumDomains : (pc[d] = "waitZone") ~> (pc[d] # "waitZone")

(* Thirty polls read the zone not active and the wait timed out. *)
ZoneNeverActive == \E d \in Domains : ZoneTimedOut(d)


(***************************************************************************)
(* Step 4, privacy removal, answered 404 or 409.                           *)
(***************************************************************************)
PrivacyRefused(r) ==
  /\ r.call = "removePrivacy"
  /\ r.outcome = "error"
  /\ r.last[1].status \in {404, 409}

(* The answer 404 or 409 to removePrivacy writes nothing, fails nothing *)
(* and moves the pipeline to the unlock request.                        *)
PrivacyRefusalPassesOn ==
  \A d \in Domains :
    pc[d] = "privacy" /\ PrivacyRefused(req'[d]) =>
      /\ pc'[d] = "unlock"
      /\ failure'[d] = failure[d]
      /\ written'[d] = written[d]
      /\ migrations' = migrations

(* No domain failed at the privacy step, and prepareForTransfer is only *)
(* called after removePrivacy was.                                      *)
PrivacyNeverFails ==
  \A d \in Domains :
    /\ failure[d] # None => failure[d][1].at # "privacy"
    /\ "prepareForTransfer" \in trace[d].calls => "removePrivacy" \in trace[d].calls

(* C32: a privacy removal answered 404 or 409 is non-fatal: the domain *)
(* does not become failed because of it and the unlock step is still   *)
(* attempted.                                                          *)
PrivacyRefusalIsNotFatal == []PrivacyNeverFails /\ [][PrivacyRefusalPassesOn]_vars

(* removePrivacy was refused with 404 or 409 and the pipeline stands at *)
(* the unlock request, the domain still dns_migrated.                   *)
UnlockAfterPrivacyRefused ==
  \E d \in Domains :
    /\ phase = "running" /\ pc[d] = "unlock"
    /\ PrivacyRefused(req[d])
    /\ failure[d] = None
    /\ RecordOf(d).status = "dns_migrated"


(***************************************************************************)
(* GoDaddyClient.prepareForTransfer: the combined mutation and the         *)
(* unlock-only mutation.                                                   *)
(***************************************************************************)
LockRejected(r) == r.outcome = "error" /\ BodyIncludes(r.last[1].body, LockBody)

FailedWith(d, at, r) ==
  /\ failure'[d] = Some([at |-> at, err |-> VoidError(r)])
  /\ failure[d] = None

(* The combined mutation comes first; rejected without the resource lock  *)
(* it is followed by the unlock-only mutation, and nothing else is;       *)
(* rejected with the resource lock, which a 422 is only after the retries *)
(* are used up, its error fails the domain.                               *)
CombinedMutationOutcome ==
  \A d \in Domains :
    pc[d] = "unlock" /\ pc'[d] # "idle" =>
      LET r == req'[d]
      IN /\ r.call = "prepareForTransfer"
         /\ pc'[d] = "unlockOnly" <=> r.outcome = "error" /\ ~LockRejected(r)
         /\ pc'[d] = "poll" <=> r.outcome = "ok"
         /\ LockRejected(r) =>
              /\ FailedWith(d, "unlock", r)
              /\ r.last[1].status = 422 => r.reqs = RESOURCE_LOCK_MAX_RETRIES + 1
         /\ failure'[d] # failure[d] => LockRejected(r)

(* The unlock-only mutation's outcome is prepareForTransfer's. *)
UnlockOnlyOutcome ==
  \A d \in Domains :
    pc[d] = "unlockOnly" /\ pc'[d] # "idle" =>
      LET r == req'[d]
      IN /\ r.call = "unlockOnly"
         /\ pc'[d] = "poll" <=> r.outcome = "ok"
         /\ r.outcome = "error" <=> failure'[d] # failure[d]
         /\ r.outcome = "error" => FailedWith(d, "unlockOnly", r)

(* The unlock-only mutation is sent only after the combined one. *)
UnlockOnlyAfterCombined ==
  \A d \in Domains :
    pc[d] = "unlockOnly" =>
      /\ "prepareForTransfer" \in trace[d].calls
      /\ failure[d] = None

(* C33: prepareForTransfer first sends the combined mutation; rejected for *)
(* a reason other than the resource lock, it sends a second mutation with  *)
(* only the unlock field, whose outcome decides; when the combined one     *)
(* fails with the resource lock after the retries, no unlock-only mutation *)
(* is sent and the error propagates.                                       *)
UnlockOnlyUnlessResourceLock ==
  /\ []UnlockOnlyAfterCombined
  /\ [][CombinedMutationOutcome /\ UnlockOnlyOutcome]_vars

(* The combined mutation was rejected without the resource lock and the *)
(* unlock-only mutation succeeded.                                      *)
UnlockOnlySucceeded ==
  \E d \in Domains :
    /\ pc[d] = "poll"
    /\ req[d].call = "unlockOnly"
    /\ req[d].outcome = "ok"


(***************************************************************************)
(* mapGoDaddyToCloudflare: which records come out, and in which order.     *)
(***************************************************************************)
ParkingRecord(record) ==
  \/ record.type = "A" /\ record.name = Apex /\ record.data = <<"Parked">>
  \/ /\ record.type = "CNAME"
     /\ record.data # <<>>
     /\ Last(record.data) \in {".secureserver.net", ".domaincontrol.com"}

Migrated(record) ==
  /\ record.type # "SOA"
  /\ ~(record.type = "NS" /\ record.name = Apex)
  /\ ~ParkingRecord(record)
  /\ ~MalformedCaa(record)
  /\ record.type \in CloudflareTypes

(* The record emitted for an input record: its type, its name under the *)
(* domain and its data.                                                 *)
EmittedFor(cfRecord, record) ==
  /\ cfRecord.type = record.type
  /\ record.type # "SRV" =>
       cfRecord.name = (IF record.name = Apex THEN ExampleDomain
                        ELSE record.name \o ExampleDomain)
  /\ record.type \notin {"SRV", "CNAME"} => cfRecord.content = record.data

(* C34: mapGoDaddyToCloudflare emits exactly one record for each input    *)
(* record that is not SOA, not NS at '@', not a parking record (A at '@'  *)
(* with data 'Parked', CNAME ending in .secureserver.net or               *)
(* .domaincontrol.com), not a malformed CAA and not of an unsupported     *)
(* type, in input order.                                                  *)
OneRecordPerMigratedInput ==
  Mapped =>
    LET kept == SelectSeq(dns.records[1], Migrated)
    IN /\ Len(dns.result[1]) = Len(kept)
       /\ \A i \in 1..Len(kept) : EmittedFor(dns.result[1][i], kept[i])

(* Two A records, a secureserver CNAME, the apex NS, the SOA and the *)
(* parking A went in; the two A records came out, in their order.    *)
MixedSetGivesTwoARecords ==
  /\ Mapped
  /\ dns.records[1] = MixedRecordSet
  /\ Len(dns.result[1]) = 2
  /\ dns.result[1][1].type = "A" /\ dns.result[1][1].name = ExampleDomain
  /\ dns.result[1][2].type = "A" /\ dns.result[1][2].name = <<"www">> \o ExampleDomain


(***************************************************************************)
(* The adapters' public methods that take a domain name: each validates    *)
(* the name, then goes through its request method.                         *)
(***************************************************************************)
SourceMethods ==
  {"getDomainDetail", "getDnsRecords", "removePrivacy", "prepareForTransfer",
   "getAuthCode", "updateNameservers"}

DestinationMethods == {"createZone", "getZoneByName", "checkAuthCode", "initiateTransfer"}

(* Methods without a domain name: no validation. *)
OtherMethods(provider) ==
  IF provider = "godaddy" THEN {"listDomains"} ELSE {"getZoneStatus"}

MethodsOf(provider) ==
  (IF provider = "godaddy" THEN SourceMethods ELSE DestinationMethods)
  \cup OtherMethods(provider)

(* The request method a public method goes through. *)
RequestMethodOf(name) ==
  CASE name \in {"removePrivacy", "prepareForTransfer", "updateNameservers"} -> "requestVoid"
    [] name = "getAuthCode" -> "requestText"
    [] OTHER -> "request"

ValidatesAtSource(name) == name \in SourceMethods

(* assertValidDomain(domain) is the method's first statement. *)
Validates(name) == name \in SourceMethods \cup DestinationMethods

(* Names of at most one character, two-label names, and labels around *)
(* the label limit.                                                   *)
MethodDomains ==
  {name \in ShortNames : Len(name) <= 1}
  \cup {Join(<<1, 1>>), Join(<<MAX_LABEL_LENGTH, 1>>), Join(<<MAX_LABEL_LENGTH + 1, 1>>),
        <<Repeat("a", 1), Repeat(".", 2), Repeat("a", 1)>>}

(* A public method is called with a name. *)
MethodCall(c, name, domain) ==
  /\ adapter[c].state \in {"idle", "threw"}
  /\ name \in MethodsOf(adapter[c].provider)
  /\ LET call == [adapter[c] EXCEPT !.name = name,
                    !.domain = IF name \in OtherMethods(adapter[c].provider)
                               THEN None ELSE Some(domain)]
     IN IF Validates(name) /\ assertValidDomain(domain) # "ok"
          THEN /\ adapter' = [adapter EXCEPT ![c] = [call EXCEPT !.state = "threw"]]
               /\ UNCHANGED <<limiterVars, pipelineVars, now, functionVars, sentAt>>
          ELSE AttemptOf(c, call, RequestMethodOf(name), 0)
  /\ UNCHANGED client

NextMethods ==
  \/ \E c \in {1}, name \in SourceMethods \cup DestinationMethods
                            \cup {"listDomains", "getZoneStatus"},
        domain \in MethodDomains :
       MethodCall(c, name, domain)
  \/ \E c \in {1} : AdapterWake(c)
  \/ \E c \in {1}, res \in Responses : AdapterResponse(c, res)
  \/ \E c \in {1} : AdapterBackoffOver(c)
  \/ AdapterTick

SpecMethods == InitAdapters /\ [][NextMethods]_vars

Rejected(call) ==
  /\ call.name \in SourceMethods \cup DestinationMethods
  /\ call.domain # None
  /\ assertValidDomain(call.domain[1]) # "ok"

(* No call with a rejected name is at the limiter, at fetch() or in a *)
(* backoff.                                                           *)
RejectedNameNeverInFlight ==
  \A c \in Callers :
    Rejected(adapter[c]) =>
      /\ adapter[c].state = "threw"
      /\ caller[c] = Idle

(* The call with a rejected name leaves the limiter and the requests sent *)
(* as they were.                                                          *)
RejectedBeforeLimiter ==
  \A c \in Callers :
    adapter'[c] # adapter[c] /\ adapter[c].state \in {"idle", "threw"}
      /\ Rejected(adapter'[c]) =>
        /\ timestamps' = timestamps
        /\ admissions' = admissions
        /\ caller' = caller
        /\ sentAt' = sentAt

(* C35: for a name assertValidDomain rejects, every adapter method that   *)
(* takes a domain name (getDomainDetail, getDnsRecords, removePrivacy,    *)
(* prepareForTransfer, getAuthCode, updateNameservers; createZone,        *)
(* getZoneByName, checkAuthCode, initiateTransfer) fails before acquiring *)
(* a rate-limiter slot and before any HTTP request.                       *)
InvalidNameFailsBeforeLimiter ==
  []RejectedNameNeverInFlight /\ [][RejectedBeforeLimiter]_vars

(* initiateTransfer threw for a name with a slash while the limiter had *)
(* a free slot, and nothing was sent.                                   *)
InitiateTransferRejected ==
  \E c \in Callers :
    /\ adapter[c].name = "initiateTransfer"
    /\ adapter[c].state = "threw"
    /\ adapter[c].domain = Some(<<Repeat("/", 1)>>)
    /\ timestamps = <<>>
    /\ sentAt = <<>>


(***************************************************************************)
(* migrateDnsRecords on its own: the records it is given, what             *)
(* createDnsRecord answers for each, and what it returns.                  *)
(***************************************************************************)
MaxCfRecords == 3

CfRecords ==
  {mapRecord(GoDaddyRecord(type, <<"www">>, <<"192.0.2.1">>, 600), ExampleDomain, FALSE)[1] :
     type \in {"A", "TXT"}}

(* createDnsRecord returns, or throws the API's error or a schema error. *)
CreateAnswers ==
  {[ok |-> TRUE, err |-> SchemaError]}
  \cup {[ok |-> FALSE, err |-> e] :
          e \in {CloudflareApiError(x.status, x.body) : x \in CloudflareErrors}
                \cup {SchemaError}}

FailedReplaced(failed, record, message) == <<[record |-> record, error |-> message]>>

(* failed.push({ record, error: message }) *)
FailedPushed(failed, record, message) ==
  Append(failed, [record |-> record, error |-> message])

(* One pass of the loop: the call, then the try's or the catch's counting. *)
migrateDnsRecordsPass(result, record, answer) ==
  LET called == [result EXCEPT !.calls = Append(@, record),
                               !.answers = Append(@, answer)]
  IN IF answer.ok THEN [called EXCEPT !.created = @ + 1]
     ELSE IF Includes(answer.err.message, "already exists")
       THEN [called EXCEPT !.created = @ + 1]
       ELSE [called EXCEPT !.failed = FailedPushed(@, record, answer.err.message)]

NoRecordMigrated ==
  [state |-> "running", calls |-> <<>>, answers |-> <<>>, created |-> 0, failed |-> <<>>]

InitMigrate ==
  /\ NoBatch /\ LimiterIdle /\ ClientIdle /\ AdaptersIdle
  /\ preflight = [domain |-> None, result |-> None]
  /\ execution = NoExecution
  /\ validation = [domain |-> None, result |-> None]
  /\ dns \in [records : {Some(records) : records \in SeqsUpTo(CfRecords, MaxCfRecords)},
              result : {Some(NoRecordMigrated)}]

(* createDnsRecord answered for the next record. *)
MigrateRecord ==
  /\ dns.result[1].state = "running"
  /\ Len(dns.result[1].calls) < Len(dns.records[1])
  /\ \E answer \in CreateAnswers :
       LET record == dns.records[1][Len(dns.result[1].calls) + 1]
           result == migrateDnsRecordsPass(dns.result[1], record, answer)
       IN dns' = [dns EXCEPT !.result =
                    Some([result EXCEPT !.state =
                            IF Len(result.calls) = Len(dns.records[1])
                            THEN "returned" ELSE "running"])]
  /\ UNCHANGED <<pipelineVars, now, limiterVars, client, preflight, validation, execution, adapterVars>>

(* No record: the loop body never runs. *)
MigrateNone ==
  /\ dns.result[1].state = "running"
  /\ dns.records[1] = <<>>
  /\ dns' = [dns EXCEPT !.result = Some([dns.result[1] EXCEPT !.state = "returned"])]
  /\ UNCHANGED <<pipelineVars, now, limiterVars, client, preflight, validation, execution, adapterVars>>

NextMigrate == MigrateRecord \/ MigrateNone

SpecMigrate == InitMigrate /\ [][NextMigrate]_vars

(* The answers that count as created: success and 'already exists'. *)
CountsAsCreated(answer) ==
  answer.ok \/ \E i \in 1..Len(answer.err.message) : answer.err.message[i] = "already exists"

(* The records whose answer was another rejection, each with its message. *)
RECURSIVE RejectedRecords(_, _)
RejectedRecords(calls, answers) ==
  IF calls = <<>> THEN <<>>
  ELSE LET rest == RejectedRecords(Tail(calls), Tail(answers))
       IN IF CountsAsCreated(Head(answers)) THEN rest
          ELSE <<[record |-> Head(calls), error |-> Head(answers).err.message]>> \o rest

(* C36: migrateDnsRecords calls createDnsRecord exactly once per input    *)
(* record, in order, goes on after any rejection and never throws; it     *)
(* returns created + failed.length = the number of inputs, created        *)
(* counting the successes and the 'already exists' rejections and failed  *)
(* holding every other rejected record with its message.                  *)
EveryRecordCountedOnce ==
  LET result == dns.result[1]
      records == dns.records[1]
  IN /\ result.state \in {"running", "returned"}
     /\ result.calls = SubSeq(records, 1, Len(result.calls))
     /\ result.state = "returned" => result.calls = records
     /\ result.calls = records /\ records # <<>> => result.state = "returned"
     /\ result.created + Len(result.failed) = Len(result.calls)
     /\ result.created =
          Cardinality({i \in 1..Len(result.answers) : CountsAsCreated(result.answers[i])})
     /\ result.failed = RejectedRecords(result.calls, result.answers)

(* Three records: the first created, the second rejected as existing, the *)
(* third rejected otherwise; 2 created and 1 failed came back.            *)
TwoCreatedOneFailed ==
  LET result == dns.result[1]
  IN /\ result.state = "returned"
     /\ Len(result.calls) = 3
     /\ result.answers[1].ok
     /\ ~result.answers[2].ok /\ ~CountsAsCreated(result.answers[2])
     /\ ~result.answers[3].ok /\ CountsAsCreated(result.answers[3])
     /\ result.created = 2
     /\ Len(result.failed) = 1


(***************************************************************************)
(* The error field of a persisted domain record.                           *)
(***************************************************************************)
HoldsError(record) == "error" \in DOMAIN record /\ record.error # None

(* C38: a persisted domain record carries an error message only while its *)
(* status is failed: once a later (resumed) execution writes a non-failed  *)
(* status, the record no longer holds the earlier error.                   *)
ErrorOnlyWhileFailed ==
  \A id \in DOMAIN migrations :
    \A d \in DOMAIN migrations[id].domains :
      HoldsError(migrations[id].domains[d]) => migrations[id].domains[d].status = "failed"


(***************************************************************************)
(* transferDomain on its own, statement by statement: its progress         *)
(* reports, its provider calls and its status writes, for an observer that *)
(* is absent, returns, or may throw.                                       *)
(***************************************************************************)
Observers == {"none", "returns", "throws"}

report(step, status) == [op |-> "report", name |-> step, status |-> status, fatal |-> TRUE]

(* An awaited call; fatal when what it throws reaches the catch block. *)
await(name, fatal) == [op |-> "await", name |-> name, status |-> "", fatal |-> fatal]

write(status) == [op |-> "write", name |-> "updateDomainStatus", status |-> status, fatal |-> TRUE]

When(condition, statements) == IF condition THEN statements ELSE <<>>

(* The status the reports after step 6 carry. *)
ReportedStatus(nameservers) == "ns_changed"

(* The try block for the given options and answers, up to its return. *)
Statements(in) ==
  <<report("Exporting DNS records", "pending"),
    await("getDnsRecords", TRUE),
    write("pending")>>
  \o (IF in.dryRun
        THEN <<report("Dry run", "pending")>>
        ELSE <<report("Creating Cloudflare zone", "pending"),
               await("createZone", ~in.zoneExists)>>
             \o When(in.zoneExists,
                     <<report("Zone already exists, looking up", "pending"),
                       await("getZoneByName", TRUE)>>)
             \o <<write("pending")>>
             \o When(in.migrateRecords,
                     <<report("Migrating DNS records", "pending"),
                       await("migrateDnsRecords", FALSE)>>
                     \o When(in.recordsFailed, <<report("DNS migration", "pending")>>))
             \o <<write("dns_migrated"),
                  report("DNS migrated", "dns_migrated"),
                  report("Removing WHOIS privacy", "dns_migrated"),
                  await("removePrivacy", FALSE)>>
             \o When(in.privacyFailed,
                     <<report("Privacy removal failed (non-blocking)", "dns_migrated")>>)
             \o <<report("Unlocking + disabling auto-renew", "dns_migrated"),
                  await("prepareForTransfer", TRUE),
                  report("Waiting for unlock to propagate", "dns_migrated"),
                  await("getDomainDetail", TRUE),
                  write("unlocked"),
                  report("Domain unlocked", "unlocked"),
                  report("Fetching auth code", "unlocked"),
                  await("getAuthCode", TRUE),
                  write("auth_obtained"),
                  report("Auth code obtained", "auth_obtained")>>
             \o When(in.nameservers,
                     <<report("Updating nameservers", "auth_obtained"),
                       await("updateNameservers", TRUE),
                       write("ns_changed"),
                       report("Nameservers updated", "ns_changed")>>)
             \o (IF in.contact
                   THEN <<report("Waiting for zone activation",
                                 ReportedStatus(in.nameservers)),
                          await("waitForZoneActive", TRUE),
                          report("Validating auth code", ReportedStatus(in.nameservers)),
                          await("checkAuthCode", TRUE),
                          report("Initiating transfer", ReportedStatus(in.nameservers)),
                          await("initiateTransfer", TRUE),
                          write("transfer_initiated"),
                          report("Transfer initiated", "transfer_initiated")>>
                   ELSE <<report("Ready for transfer",
                                 ReportedStatus(in.nameservers))>>))

(* The statuses a record may hold when transferDomain is called: pending *)
(* for a new run, failed or an intermediate status when it is resumed.   *)
StatusesAtCall == {"pending", "failed", "auth_obtained"}

Inputs ==
  [dryRun : BOOLEAN, migrateRecords : BOOLEAN, zoneExists : BOOLEAN,
   recordsFailed : BOOLEAN, privacyFailed : BOOLEAN, nameservers : BOOLEAN,
   contact : BOOLEAN, onProgress : Observers]

InitObserved ==
  /\ NoBatch /\ LimiterIdle /\ ClientIdle /\ AdaptersIdle
  /\ preflight = [domain |-> None, result |-> None]
  /\ dns = [records |-> None, result |-> None]
  /\ validation = [domain |-> None, result |-> None]
  /\ \E in \in Inputs, status \in StatusesAtCall :
       /\ in.recordsFailed => in.migrateRecords
       /\ in.dryRun => status = "pending" /\ ~in.zoneExists /\ ~in.privacyFailed
                       /\ ~in.recordsFailed /\ in.migrateRecords
       /\ execution = [in |-> in, at |-> 1, outcome |-> "running", status |-> status,
                       written |-> <<>>, events |-> <<>>, thrownBy |-> "none"]

Statement == Statements(execution.in)[execution.at]

InTry ==
  /\ execution.outcome = "running"
  /\ execution.at <= Len(Statements(execution.in))

ObservedUnchanged ==
  UNCHANGED <<pipelineVars, now, limiterVars, client, preflight, dns, validation, adapterVars>>

(* onProgress?.({ domain, step, status, error }) *)
Emit(exec, step, status) ==
  IF exec.in.onProgress = "none" THEN exec
  ELSE [exec EXCEPT !.events =
          Append(@, [step |-> step, status |-> status, persisted |-> exec.status])]

(* The catch block: persist failed, report it, rethrow. *)
Catch(exec, by) ==
  LET failed == [exec EXCEPT !.status = "failed", !.written = Append(@, "failed"),
                             !.thrownBy = by, !.outcome = "threw"]
  IN Emit(failed, "error", "failed")

(* A report: the observer, when there is one, returns or throws. *)
Report ==
  /\ InTry /\ Statement.op = "report"
  /\ \/ execution' = [Emit(execution, Statement.name, Statement.status)
                        EXCEPT !.at = @ + 1]
     \/ /\ execution.in.onProgress = "throws"
        /\ execution' = Catch(Emit(execution, Statement.name, Statement.status), "observer")
  /\ ObservedUnchanged

(* An awaited provider call returns, or throws. *)
Await ==
  /\ InTry /\ Statement.op = "await"
  /\ \/ execution' = [execution EXCEPT !.at = @ + 1]
     \/ /\ Statement.fatal
        /\ execution' = Catch(execution, Statement.name)
  /\ ObservedUnchanged

(* state.updateDomainStatus(migrationId, domain, status) *)
Write ==
  /\ InTry /\ Statement.op = "write"
  /\ execution' = [execution EXCEPT !.status = Statement.status,
                                    !.written = Append(@, Statement.status),
                                    !.at = @ + 1]
  /\ ObservedUnchanged

Return ==
  /\ execution.outcome = "running"
  /\ execution.at > Len(Statements(execution.in))
  /\ execution' = [execution EXCEPT !.outcome = "returned"]
  /\ ObservedUnchanged

NextObserved == Report \/ Await \/ Write \/ Return

SpecObserved == InitObserved /\ [][NextObserved]_vars

(* C37: the persisted statuses do not depend on the progress observer: *)
(* whatever the observer does, no status is persisted because of it; in *)
(* particular an observer failing after transfer_initiated was persisted *)
(* does not turn the domain to failed.                                   *)
StatusesIndependentOfObserver ==
  /\ execution.thrownBy = "observer" => execution.status # "failed"
  /\ (\E i \in 1..Len(execution.written) : execution.written[i] = "transfer_initiated")
       => execution.status = "transfer_initiated"

(* C39: every progress event carries the status persisted for the domain *)
(* at the moment it is emitted, on every path.                           *)
EventsCarryPersistedStatus ==
  \A i \in 1..Len(execution.events) :
    execution.events[i].status = execution.events[i].persisted


(***************************************************************************)
(* Termination of transferDomain and of the batch.                         *)
(***************************************************************************)
(* Two pipelines of one batch, under the same scheduling. *)
SpecMultiLive ==
  /\ SpecMulti
  /\ \A d \in 1..NumDomains : WF_vars(Step(d))
  /\ WF_vars(BatchEnd)

(* A mutating call has sent at most RESOURCE_LOCK_MAX_RETRIES + 1         *)
(* requests, the lock poll has made fewer than 6 reads while it goes on,  *)
(* and the zone wait is inside its timeout.                               *)
LoopsBounded ==
  \A d \in Domains :
    /\ req[d].reqs <= RESOURCE_LOCK_MAX_RETRIES + 1
    /\ Len(req[d].sleeps) <= RESOURCE_LOCK_MAX_RETRIES
    /\ pc[d] = "poll" => task[d].attempt < UNLOCK_POLL_ATTEMPTS
    /\ pc[d] = "waitZone" => task[d].elapsed < timeoutMs

MaxCalls == 2

BatchCall(c, method) ==
  /\ adapter[c].state = "idle"
  /\ adapter[c].calls < MaxCalls
  /\ method \in RequestMethods(adapter[c].provider)
  /\ AttemptOf(c, [adapter[c] EXCEPT !.calls = @ + 1], method, 0)
  /\ UNCHANGED client

NextBatchCalls ==
  \/ \E c \in Pipelines, method \in {"request", "requestVoid", "requestText", "fetchWithRetry"} :
       BatchCall(c, method)
  \/ \E c \in Pipelines : AdapterWake(c)
  \/ \E c \in Pipelines, res \in Responses : AdapterResponse(c, res)
  \/ \E c \in Pipelines : AdapterBackoffOver(c)
  \/ AdapterTick

SpecBatchCalls ==
  /\ InitAdapters /\ [][NextBatchCalls]_vars
  /\ WF_vars(AdapterTick)
  /\ \A c \in Pipelines :
       /\ WF_vars(AdapterWake(c))
       /\ WF_vars(AdapterBackoffOver(c))
       /\ WF_vars(\E res \in Responses : AdapterResponse(c, res))

(* Inside a batch every acquire() returns and every call ends. *)
AcquireReturnsInBatch ==
  \A c \in Pipelines :
    /\ (adapter[c].state = "limited") ~> (adapter[c].state = "fetch")
    /\ (adapter[c].state # "idle") ~> (adapter[c].state = "idle")

====
